---- MODULE Spec2Model ----
(***************************************************************************)
(* A model of the Loki log tooling of openshift-ai-observability-summarizer *)
(*   src/mcp_server/tools/loki/query_tool.py      (LokiQueryTool)           *)
(*   src/mcp_server/tools/loki/error_handling.py  (LokiErrorClassifier)     *)
(*   src/mcp_server/tools/loki/models.py          (LogQueryResponse)        *)
(*   src/core/logql_service.py                    (generate_logql_from_...) *)
(*   src/mcp_server/tools/loki/mcp_tools.py       (chat_loki_tool)          *)
(*   src/core/enhanced_llm_summary_service.py     (log aggregations)        *)
(* Python str values are TLA+ strings; `a in b` on strings is Contains.     *)
(* A Python dict is a function whose DOMAIN is the set of keys present.     *)
(***************************************************************************)
EXTENDS Integers, Sequences, FiniteSets, TLC

VARIABLES
    loki_url,      \* LokiQueryTool.loki_url, fixed by __init__
    pc,            \* per call of query_logs: "idle", "awaiting", "done"
    args,          \* per call: the arguments logql, start_time, end_time
    sent,          \* per call: HTTP requests issued so far
    outcome,       \* per call: what the awaited client.get produced
    result,        \* per call: the dict query_logs returned
    raised,        \* per call: an exception left query_logs
    result_data,   \* the argument of _parse_log_entries
    parse_pc,      \* "ready", "returned", "raised"
    log_entries,   \* the list _parse_log_entries returned
    plan_in,       \* the arguments of generate_logql_from_question
    plan_pc,       \* "ready", "returned"
    queries,       \* the list generate_logql_from_question returned
    cls_in,        \* the arguments of the classifier's two class methods
    cls_pc,        \* "ready", "classified", "described"
    cls_out,       \* what the classifier returned
    creds,         \* the environment: LOKI_TOKEN and the two mounted token files
    cred_pc,       \* "ready", "token", "headers"
    token,         \* what _get_service_account_token did: returned or raised
    headers,       \* the request headers _get_request_headers built
    agg_in,        \* the backend data an aggregation runs over
    agg_pc,        \* "ready", then the aggregation path that ran
    agg_out,       \* the counts that aggregation path computed
    time_in,       \* an instant and the process's local UTC offset
    time_pc,       \* "ready", "converted", "restored"
    time_out       \* the nanoseconds sent, then the timestamp read back

clientVars == <<loki_url, pc, args, sent, outcome, result, raised>>
parseVars == <<result_data, parse_pc, log_entries>>
planVars == <<plan_in, plan_pc, queries>>
clsVars == <<cls_in, cls_pc, cls_out>>
credVars == <<creds, cred_pc, token, headers>>
aggVars == <<agg_in, agg_pc, agg_out>>
timeVars == <<time_in, time_pc, time_out>>
vars == <<clientVars, parseVars, planVars, clsVars, credVars, aggVars, timeVars>>

---------------------------------------------------------------------------
(* Python str helpers *)

Min(S) == CHOOSE x \in S : \A y \in S : x <= y

\* s[i], as a one-character string (1-based)
Ch(s, i) == SubSeq(s, i, i)

\* s[i:i+len(w)] == w (1-based i)
MatchAt(s, i, w) == i >= 1 /\ i + Len(w) - 1 <= Len(s) /\ SubSeq(s, i, i + Len(w) - 1) = w

\* p in s
Contains(s, p) ==
    \E i \in 1..(Len(s) - Len(p) + 1) : MatchAt(s, i, p)

StartsWith(s, p) == Len(s) >= Len(p) /\ SubSeq(s, 1, Len(p)) = p

EndsWith(s, p) == Len(s) >= Len(p) /\ SubSeq(s, Len(s) - Len(p) + 1, Len(s)) = p

UpperChars == {"A", "B", "C", "D", "E", "F", "G", "H", "I", "J", "K", "L", "M",
               "N", "O", "P", "Q", "R", "S", "T", "U", "V", "W", "X", "Y", "Z"}

LowerChars == {"a", "b", "c", "d", "e", "f", "g", "h", "i", "j", "k", "l", "m",
               "n", "o", "p", "q", "r", "s", "t", "u", "v", "w", "x", "y", "z"}

DigitChars == {"0", "1", "2", "3", "4", "5", "6", "7", "8", "9"}

\* \w of Python's re, on the ASCII the model draws
WordChars == UpperChars \cup LowerChars \cup DigitChars \cup {"_"}

\* \s of Python's re and the characters str.strip() removes
SpaceChars == {" ", "\t", "\n", "\r"}

LowerChar(c) ==
    CASE c = "A" -> "a" [] c = "B" -> "b" [] c = "C" -> "c" [] c = "D" -> "d"
      [] c = "E" -> "e" [] c = "F" -> "f" [] c = "G" -> "g" [] c = "H" -> "h"
      [] c = "I" -> "i" [] c = "J" -> "j" [] c = "K" -> "k" [] c = "L" -> "l"
      [] c = "M" -> "m" [] c = "N" -> "n" [] c = "O" -> "o" [] c = "P" -> "p"
      [] c = "Q" -> "q" [] c = "R" -> "r" [] c = "S" -> "s" [] c = "T" -> "t"
      [] c = "U" -> "u" [] c = "V" -> "v" [] c = "W" -> "w" [] c = "X" -> "x"
      [] c = "Y" -> "y" [] c = "Z" -> "z" [] OTHER -> c

RECURSIVE SeqsUpTo(_, _)
\* the sequences over S of length at most n
SeqsUpTo(S, n) ==
    IF n = 0 THEN {<<>>}
    ELSE LET shorter == SeqsUpTo(S, n - 1)
         IN  shorter \cup {Append(q, x) : q \in shorter, x \in S}

RECURSIVE Lower(_)
\* str.lower(): character by character, computed by halving the string
Lower(s) ==
    IF s = "" THEN ""
    ELSE IF Len(s) = 1 THEN LowerChar(s)
    ELSE Lower(SubSeq(s, 1, Len(s) \div 2)) \o Lower(SubSeq(s, Len(s) \div 2 + 1, Len(s)))

RECURSIVE LStrip(_)
LStrip(s) == IF s # "" /\ Head(s) \in SpaceChars THEN LStrip(Tail(s)) ELSE s

RECURSIVE RStrip(_)
RStrip(s) ==
    IF s # "" /\ Ch(s, Len(s)) \in SpaceChars
    THEN RStrip(SubSeq(s, 1, Len(s) - 1))
    ELSE s

\* str.strip()
Strip(s) == RStrip(LStrip(s))

---------------------------------------------------------------------------
(* error_handling.py: LokiErrorType and LokiErrorClassifier *)

LokiErrorType ==
    {"connection_refused", "dns_resolution_failed", "http_error", "timeout",
     "authentication_failed", "service_unavailable", "query_syntax_error",
     "rate_limited", "unknown"}

\* the ERROR_PATTERNS table, in its insertion order
ERROR_PATTERNS ==
    << [type |-> "connection_refused",
        patterns |-> <<"connection refused", "connection reset", "no route to host">>],
       [type |-> "dns_resolution_failed",
        patterns |-> <<"name or service not known", "nodename nor servname provided",
                       "temporary failure in name resolution",
                       "no address associated with hostname">>],
       [type |-> "http_error",
        patterns |-> <<"http 4", "http 5", "bad request", "internal server error">>],
       [type |-> "timeout",
        patterns |-> <<"timeout", "timed out", "deadline exceeded">>],
       [type |-> "authentication_failed",
        patterns |-> <<"unauthorized", "authentication failed", "invalid credentials",
                       "access denied">>],
       [type |-> "service_unavailable",
        patterns |-> <<"service unavailable", "bad gateway", "gateway timeout">>],
       [type |-> "query_syntax_error",
        patterns |-> <<"parse error", "syntax error", "invalid query", "bad logql">>],
       [type |-> "rate_limited",
        patterns |-> <<"rate limit", "too many requests", "quota exceeded">>] >>

\* any(pattern in error_lower for pattern in patterns)
AnyPattern(error_lower, patterns) ==
    \E k \in 1..Len(patterns) : Contains(error_lower, patterns[k])

\* a classifier in which the last matching category of the table wins
classify_error_LastMatch(error_message) ==
    LET hits == {i \in 1..Len(ERROR_PATTERNS) :
                    AnyPattern(Lower(error_message), ERROR_PATTERNS[i].patterns)}
    IN  IF hits = {} THEN "unknown"
        ELSE ERROR_PATTERNS[CHOOSE i \in hits : \A j \in hits : j <= i].type

classify_error(error_message) ==
    LET error_lower == Lower(error_message)
        hits == {i \in 1..Len(ERROR_PATTERNS) :
                    AnyPattern(error_lower, ERROR_PATTERNS[i].patterns)}
    IN  IF hits = {} THEN "unknown" ELSE ERROR_PATTERNS[Min(hits)].type

get_user_friendly_message(error_type, url) ==
    CASE error_type = "connection_refused" ->
            "Loki service refused connection at " \o url
            \o ". Check if Loki is running in the observability-hub namespace."
      [] error_type = "dns_resolution_failed" ->
            "Loki service not reachable at " \o url
            \o ". This is expected when running locally. Deploy to OpenShift to access Loki."
      [] error_type = "http_error" ->
            "HTTP error accessing Loki at " \o url
            \o ". Check if the service is properly configured."
      [] error_type = "timeout" ->
            "Request to Loki timed out at " \o url
            \o ". The service may be overloaded or unreachable."
      [] error_type = "authentication_failed" ->
            "Authentication failed when accessing Loki at " \o url
            \o ". Check your credentials."
      [] error_type = "service_unavailable" ->
            "Loki service is temporarily unavailable at " \o url
            \o ". Please try again later."
      [] error_type = "query_syntax_error" ->
            "LogQL query syntax error. Check your query syntax and try again."
      [] error_type = "rate_limited" ->
            "Rate limit exceeded for Loki at " \o url
            \o ". Please reduce query frequency."
      [] OTHER -> "Unexpected error accessing Loki at " \o url

---------------------------------------------------------------------------
(* json.loads, on the JSON the model draws: objects whose members are       *)
(* strings, integers, true, false or null (no escapes, no nesting).         *)
(* A JSON value is [t, v]: t is "str", "num" or "lit", v its text.          *)

JStr(s) == [t |-> "str", v |-> s]

\* a failed scan
NoScan == [ok |-> FALSE, val |-> JStr(""), next |-> 0]

RECURSIVE SkipWs(_, _)
SkipWs(s, i) ==
    IF i <= Len(s) /\ Ch(s, i) \in SpaceChars THEN SkipWs(s, i + 1) ELSE i

\* the first index at or after i whose character is not in set
RunEnd(s, i, set) ==
    IF i > Len(s) THEN i
    ELSE CHOOSE j \in i..(Len(s) + 1) :
            /\ j = Len(s) + 1 \/ Ch(s, j) \notin set
            /\ \A k \in i..(j - 1) : Ch(s, k) \in set

\* a string starting at the quote s[i]
ScanString(s, i) ==
    LET closing == {j \in (i + 1)..Len(s) : Ch(s, j) = "\""}
    IN  IF i > Len(s) \/ Ch(s, i) # "\"" \/ closing = {}
        THEN NoScan
        ELSE [ok |-> TRUE, val |-> JStr(SubSeq(s, i + 1, Min(closing) - 1)),
              next |-> Min(closing) + 1]

\* an integer starting at s[i]: -?(0|[1-9][0-9]*)
ScanNumber(s, i) ==
    LET d == IF i <= Len(s) /\ Ch(s, i) = "-" THEN i + 1 ELSE i
        e == RunEnd(s, d, DigitChars)
    IN  IF e = d \/ (Ch(s, d) = "0" /\ e > d + 1)
        THEN NoScan
        ELSE [ok |-> TRUE, val |-> [t |-> "num", v |-> SubSeq(s, i, e - 1)], next |-> e]

ScanLiteral(s, i) ==
    LET hits == {w \in {"true", "false", "null"} : MatchAt(s, i, w)}
    IN  IF hits = {}
        THEN NoScan
        ELSE LET w == CHOOSE x \in hits : TRUE
             IN  [ok |-> TRUE, val |-> [t |-> "lit", v |-> w], next |-> i + Len(w)]

ScanValue(s, i) ==
    IF i > Len(s) THEN NoScan
    ELSE IF Ch(s, i) = "\"" THEN ScanString(s, i)
    ELSE IF Ch(s, i) \in DigitChars \cup {"-"} THEN ScanNumber(s, i)
    ELSE ScanLiteral(s, i)

\* a failed json.loads (json.JSONDecodeError)
JSONDecodeError == [ok |-> FALSE, obj |-> <<>>]

RECURSIVE ScanMembers(_, _, _)
\* the members of an object from s[i] on, added to acc (a later key wins)
ScanMembers(s, i, acc) ==
    LET key == ScanString(s, i)
        colon == SkipWs(s, key.next)
        val == ScanValue(s, SkipWs(s, colon + 1))
        after == SkipWs(s, val.next)
        k == key.val.v
        acc2 == [x \in DOMAIN acc \cup {k} |-> IF x = k THEN val.val ELSE acc[x]]
    IN  IF ~key.ok \/ colon > Len(s) \/ Ch(s, colon) # ":" THEN JSONDecodeError
        ELSE IF ~val.ok \/ after > Len(s) THEN JSONDecodeError
        ELSE IF Ch(s, after) = ","
             THEN ScanMembers(s, SkipWs(s, after + 1), acc2)
        ELSE IF Ch(s, after) = "}" /\ SkipWs(s, after + 1) = Len(s) + 1
             THEN [ok |-> TRUE, obj |-> acc2]
        ELSE JSONDecodeError

\* json.loads(s) for a text that is an object or no JSON at all
json_loads(s) ==
    LET open == SkipWs(s, 1)
        first == SkipWs(s, open + 1)
    IN  IF open > Len(s) \/ Ch(s, open) # "{" \/ first > Len(s) THEN JSONDecodeError
        ELSE IF Ch(s, first) = "}"
             THEN IF SkipWs(s, first + 1) = Len(s) + 1
                  THEN [ok |-> TRUE, obj |-> <<>>]
                  ELSE JSONDecodeError
        ELSE ScanMembers(s, first, <<>>)

\* dict.get(key, default)
Get(d, key, default) == IF key \in DOMAIN d THEN d[key] ELSE default

---------------------------------------------------------------------------
(* query_tool.py: LokiQueryTool._parse_log_entries *)

\* the alternatives of the level pattern, lower-cased
LevelWords == {"debug", "info", "warn", "warning", "error", "fatal", "critical"}

\* \b at index i of s: exactly one of s[i-1], s[i] is a word character
Boundary(s, i) ==
    LET before == i > 1 /\ i - 1 <= Len(s) /\ Ch(s, i - 1) \in WordChars
        here == i >= 1 /\ i <= Len(s) /\ Ch(s, i) \in WordChars
    IN  before # here

\* re.search(r'\b(DEBUG|INFO|WARN|WARNING|ERROR|FATAL|CRITICAL)\b', log_line,
\* re.IGNORECASE): the leftmost match's group(1).lower(), "" when no match
LevelSearch(log_line) ==
    LET low == Lower(log_line)
        at(i) == {w \in LevelWords :
                    /\ MatchAt(low, i, w)
                    /\ Boundary(low, i)
                    /\ Boundary(low, i + Len(w))}
        starts == {i \in 1..Len(low) : at(i) # {}}
    IN  IF starts = {} THEN "" ELSE CHOOSE w \in at(Min(starts)) : TRUE

RECURSIVE DecValue(_)
\* the value of a string of decimal digits
DecValue(s) ==
    IF s = "" THEN 0
    ELSE 10 * DecValue(SubSeq(s, 1, Len(s) - 1))
         + (CHOOSE d \in 0..9 : ToString(d) = Ch(s, Len(s)))

\* int(value[0]) succeeds: the text is a run of decimal digits
IsIntText(s) == s # "" /\ RunEnd(s, 1, DigitChars) = Len(s) + 1

\* datetime.fromtimestamp(timestamp_ns / 1_000_000_000), as seconds and
\* microseconds since the epoch. The Python int timestamp_ns is kept as its
\* decimal text: its last 9 digits are the nanoseconds within the second.
\* Exact for the microsecond-aligned time units the model draws.
FromTimestamp(ns_text) ==
    LET n == Len(ns_text)
        secs == IF n > 9 THEN DecValue(SubSeq(ns_text, 1, n - 9)) ELSE 0
        nanos == IF n > 9 THEN DecValue(SubSeq(ns_text, n - 8, n)) ELSE DecValue(ns_text)
    IN  [sec |-> secs, usec |-> nanos \div 1000]

\* lines 112-117: the entry before the structured-log attempt
BaseEntry(value, stream_labels) ==
    [k \in {"timestamp", "timestamp_ns", "log", "labels"} |->
        CASE k = "timestamp" -> FromTimestamp(value[1])
          [] k = "timestamp_ns" -> value[1]
          [] k = "log" -> value[2]
          [] k = "labels" -> stream_labels]

\* lines 124-127: the keys set after json.loads returned parsed_log
StructuredFields(log_line, parsed_log) ==
    [k \in {"parsed", "level", "message"} |->
        CASE k = "parsed" -> parsed_log
          [] k = "level" -> Get(parsed_log, "level", JStr("unknown"))
          [] k = "message" ->
                Get(parsed_log, "message", Get(parsed_log, "msg", JStr(log_line)))]

\* lines 128-137: the except branch, run when json.loads raised
PlainTextFields(log_line) ==
    [k \in {"message", "level"} |->
        CASE k = "message" -> JStr(log_line)
          [] k = "level" ->
                IF LevelSearch(log_line) # ""
                THEN JStr(LevelSearch(log_line))
                ELSE JStr("unknown")]

\* line 122: the guard of the structured-log attempt
LooksLikeJson(log_line) ==
    StartsWith(Strip(log_line), "{") /\ EndsWith(Strip(log_line), "}")

\* line 128: the exceptions the except clause names (json.JSONDecodeError
\* is a ValueError)
CaughtByParse(exc) == exc \in {"JSONDecodeError", "ValueError"}

\* lines 119-137: the try statement. Outside the guard nothing is attempted
\* and nothing raises, so the except branch does not run.
TryStructured(log_line) ==
    IF LooksLikeJson(log_line)
    THEN IF json_loads(log_line).ok
         THEN StructuredFields(log_line, json_loads(log_line).obj)
         ELSE PlainTextFields(log_line)
    ELSE <<>>

\* the try statement lets json.loads' exception through
LineRaises(log_line) ==
    LooksLikeJson(log_line) /\ ~json_loads(log_line).ok
    /\ ~CaughtByParse("JSONDecodeError")

\* lines 105-139 for one value: the entry appended
ParseValue(value, stream_labels) ==
    TryStructured(value[2]) @@ BaseEntry(value, stream_labels)

\* a value the loop body raises on: int(value[0]) raises ValueError
ValueRaises(value) ==
    Len(value) >= 2 /\ (~IsIntText(value[1]) \/ LineRaises(value[2]))

RECURSIVE ParseValues(_, _)
ParseValues(values, stream_labels) ==
    IF values = <<>> THEN <<>>
    ELSE (IF Len(Head(values)) >= 2
          THEN <<ParseValue(Head(values), stream_labels)>>
          ELSE <<>>)
         \o ParseValues(Tail(values), stream_labels)

RECURSIVE ParseStreams(_)
ParseStreams(streams) ==
    IF streams = <<>> THEN <<>>
    ELSE ParseValues(Get(Head(streams), "values", <<>>),
                     Get(Head(streams), "stream", <<>>))
         \o ParseStreams(Tail(streams))

\* _parse_log_entries raises on this input
ParseRaises(data) ==
    /\ "result" \in DOMAIN data
    /\ \E i \in 1..Len(data["result"]) :
          LET values == Get(data["result"][i], "values", <<>>)
          IN  \E j \in 1..Len(values) : ValueRaises(values[j])

\* _parse_log_entries(result_data), when it returns
parse_log_entries(data) ==
    IF "result" \in DOMAIN data THEN ParseStreams(data["result"]) ELSE <<>>

---------------------------------------------------------------------------
(* error_handling.py: LogPatternDetector, on the entries of                *)
(* _parse_log_entries. The drawn entries have str levels and messages.     *)

\* any(keyword in message for keyword in keywords)
AnyKeyword(message, keywords) ==
    \E k \in 1..Len(keywords) : Contains(message, keywords[k])

\* log_entry.get("level", default)
EntryLevel(log_entry, default) == Get(log_entry, "level", JStr(default)).v

\* log_entry.get("message", log_entry.get("log", "")).lower()
EntryMessage(log_entry) ==
    Lower(Get(log_entry, "message", JStr(Get(log_entry, "log", ""))).v)

\* lines 119-133
is_error_log(log_entry) ==
    \/ Lower(EntryLevel(log_entry, "")) \in {"error", "fatal", "critical"}
    \/ AnyKeyword(EntryMessage(log_entry),
                  <<"error", "failed", "failure", "exception", "panic",
                    "fatal", "critical", "crashed", "abort">>)

\* lines 135-146
is_warning_log(log_entry) ==
    \/ Lower(EntryLevel(log_entry, "")) \in {"warning", "warn"}
    \/ AnyKeyword(EntryMessage(log_entry),
                  <<"warning", "warn", "deprecated", "slow", "retry">>)

\* lines 153-162: the error_types table, in its insertion order
ERROR_TYPES ==
    << [type |-> "database",
        keywords |-> <<"database", "db", "sql", "mysql", "postgres", "mongodb">>],
       [type |-> "connection", keywords |-> <<"connection", "connect", "socket", "network">>],
       [type |-> "timeout", keywords |-> <<"timeout", "timed out", "deadline exceeded">>],
       [type |-> "authentication",
        keywords |-> <<"auth", "authentication", "login", "credentials">>],
       [type |-> "http", keywords |-> <<"http", "api", "request", "response", "status">>],
       [type |-> "memory", keywords |-> <<"memory", "oom", "out of memory", "heap">>],
       [type |-> "disk", keywords |-> <<"disk", "filesystem", "storage", "space">>],
       [type |-> "permission",
        keywords |-> <<"permission", "access", "denied", "forbidden">>] >>

\* lines 148-168
extract_error_type(log_entry) ==
    LET hits == {i \in 1..Len(ERROR_TYPES) :
                    AnyKeyword(EntryMessage(log_entry), ERROR_TYPES[i].keywords)}
    IN  IF hits = {} THEN "unknown" ELSE ERROR_TYPES[Min(hits)].type

\* lines 170-180
extract_service_info(log_entry) ==
    LET labels == Get(log_entry, "labels", <<>>)
    IN  [k \in {"namespace", "service_name", "pod_name", "container"} |->
            CASE k = "namespace" -> Get(labels, "namespace", "unknown")
              [] k = "service_name" ->
                    Get(labels, "service_name", Get(labels, "app", "unknown"))
              [] k = "pod_name" -> Get(labels, "pod_name", Get(labels, "pod", "unknown"))
              [] k = "container" -> Get(labels, "container", "unknown")]

---------------------------------------------------------------------------
(* The three aggregations over log data:                                    *)
(*   mcp_tools.py chat_loki_tool, over the entries query_logs returned;     *)
(*   enhanced_llm_summary_service.py generate_error_analysis_with_          *)
(*   correlation and generate_unified_observability_summary, over the       *)
(*   backend's streams.                                                     *)

\* the dict d built by d[key] = d.get(key, 0) + 1 for key in keys
CountBy(keys) ==
    [k \in {keys[i] : i \in 1..Len(keys)} |->
        Cardinality({i \in 1..Len(keys) : keys[i] = k})]

\* a loop that tests the two detectors independently of each other
chat_analysis_IndependentTests(logs) ==
    LET error_logs == SelectSeq(logs, is_error_log)
    IN  [error_logs |-> error_logs,
         warning_logs |-> SelectSeq(logs, is_warning_log),
         services |-> CountBy([i \in 1..Len(logs) |->
                                extract_service_info(logs[i])["service_name"]]),
         log_levels |-> CountBy([i \in 1..Len(logs) |-> EntryLevel(logs[i], "unknown")]),
         error_types |-> CountBy([i \in 1..Len(error_logs) |->
                                   extract_error_type(error_logs[i])])]

\* mcp_tools.py lines 462-510
chat_analysis(logs) ==
    LET error_logs == SelectSeq(logs, is_error_log)
    IN  [error_logs |-> error_logs,
         warning_logs |->
            SelectSeq(logs, LAMBDA e : ~is_error_log(e) /\ is_warning_log(e)),
         services |-> CountBy([i \in 1..Len(logs) |->
                                extract_service_info(logs[i])["service_name"]]),
         log_levels |-> CountBy([i \in 1..Len(logs) |-> EntryLevel(logs[i], "unknown")]),
         error_types |-> CountBy([i \in 1..Len(error_logs) |->
                                   extract_error_type(error_logs[i])])]

RECURSIVE StreamLines(_)
\* the loops over data["result"] and each stream's values: for every value
\* of at least two items, the stream's labels and the log line
StreamLines(streams) ==
    IF streams = <<>> THEN <<>>
    ELSE LET values == Get(Head(streams), "values", <<>>)
             labels == Get(Head(streams), "stream", <<>>)
         IN  [i \in 1..Len(SelectSeq(values, LAMBDA v : Len(v) >= 2)) |->
                 [labels |-> labels,
                  line |-> SelectSeq(values, LAMBDA v : Len(v) >= 2)[i][2]]]
             \o StreamLines(Tail(streams))

\* summary service lines 248-253: the if/elif chain over the log line
ErrorPattern(log_line) ==
    IF Contains(Lower(log_line), "database") THEN "database"
    ELSE IF Contains(Lower(log_line), "connection") THEN "connection"
    ELSE IF Contains(Lower(log_line), "timeout") THEN "timeout"
    ELSE ""

\* summary service lines 228-256, for one successful logs_data item
error_analysis(data) ==
    LET lines == IF "result" \in DOMAIN data THEN StreamLines(data["result"]) ELSE <<>>
        errors == SelectSeq(lines, LAMBDA x :
                      AnyKeyword(Lower(x.line), <<"error", "failed", "exception">>))
        patterns == SelectSeq([i \in 1..Len(errors) |-> ErrorPattern(errors[i].line)],
                              LAMBDA x : x # "")
    IN  [total_errors |-> Len(errors),
         error_patterns |-> CountBy(patterns),
         service_errors |->
            CountBy([i \in 1..Len(errors) |->
                        Get(errors[i].labels, "service_name", "unknown")])]

RECURSIVE SampledLines(_)
\* summary service lines 477-479: the first five values of every stream
SampledLines(streams) ==
    IF streams = <<>> THEN <<>>
    ELSE LET values == Get(Head(streams), "values", <<>>)
         IN  StreamLines(<<[stream |-> Get(Head(streams), "stream", <<>>),
                            values |-> SubSeq(values, 1, IF Len(values) < 5
                                                         THEN Len(values) ELSE 5)]>>)
             \o SampledLines(Tail(streams))

RECURSIVE TotalValues(_)
\* summary service line 475, summed over the streams
TotalValues(streams) ==
    IF streams = <<>> THEN 0
    ELSE Len(Get(Head(streams), "values", <<>>)) + TotalValues(Tail(streams))

\* summary service lines 457-485, for one successful logs_data item
unified_summary(data) ==
    LET streams == IF "result" \in DOMAIN data THEN data["result"] ELSE <<>>
        sampled == SampledLines(streams)
        is_error(x) == AnyKeyword(Lower(x.line), <<"error", "failed", "exception">>)
    IN  [total_entries |-> TotalValues(streams),
         error_count |-> Len(SelectSeq(sampled, is_error)),
         warning_count |->
            Len(SelectSeq(sampled, LAMBDA x :
                    ~is_error(x) /\ AnyKeyword(Lower(x.line), <<"warning", "warn">>))),
         services |->
            {Get(Get(streams[i], "stream", <<>>), "service_name", "unknown") :
                i \in 1..Len(streams)}]

---------------------------------------------------------------------------
(* models.py: LogQueryResponse; query_tool.py: LokiQueryTool.query_logs *)

DEFAULT_LOKI_URL ==
    "https://logging-loki-gateway-http.observability-hub.svc.cluster.local:8080"

\* the fields of the dataclass LogQueryResponse
ResponseFields ==
    {"success", "query", "logs", "total", "time_range", "api_endpoint",
     "result_type", "error", "loki_url", "error_type"}

\* a to_dict that drops every falsy value, the empty list and 0 included
to_dict_DropsFalsy(kw) ==
    [k \in {f \in DOMAIN kw \cap ResponseFields :
                /\ ~(f = "logs" /\ kw[f] = <<>>)
                /\ ~(f = "total" /\ kw[f] = 0)} |-> kw[k]]

\* LogQueryResponse(**kw).to_dict(): a field that was not passed keeps its
\* default None and is dropped; no argument query_logs passes is None here
to_dict(kw) == [k \in DOMAIN kw \cap ResponseFields |-> kw[k]]

\* f"{self.loki_url}/api/logs/v1/{tenant}/loki/api/v1/query_range"
QueryUrl(url) == url \o "/api/logs/v1/application/loki/api/v1/query_range"

\* datetime.fromisoformat(t.replace('Z', '+00:00')) accepts t, for the
\* shapes drawn: YYYY-MM-DDTHH:MM:SS followed by Z, +00:00 or nothing
IsIsoFormat(t) ==
    /\ Len(t) >= 19
    /\ \A i \in {1, 2, 3, 4, 6, 7, 9, 10, 12, 13, 15, 16, 18, 19} : Ch(t, i) \in DigitChars
    /\ Ch(t, 5) = "-" /\ Ch(t, 8) = "-" /\ Ch(t, 11) = "T"
    /\ Ch(t, 14) = ":" /\ Ch(t, 17) = ":"
    /\ SubSeq(t, 20, Len(t)) \in {"", "Z", "+00:00"}

\* an exception, as its class and str(e)
Exc(type, msg) == [type |-> type, msg |-> msg]

\* the classes that are not subclasses of Exception
BaseOnlyExceptions == {"CancelledError", "KeyboardInterrupt", "SystemExit"}

\* an except clause that names the HTTP library's errors only
CaughtByQueryLogs_HttpxOnly(type) ==
    type \in {"ConnectError", "ConnectTimeout", "ReadTimeout", "RemoteProtocolError"}

\* line 241: except Exception
CaughtByQueryLogs(type) == type \notin BaseOnlyExceptions

\* what a try body did: returned value, or raised exc
Returned(value) == [raises |-> FALSE, exc |-> Exc("", ""), value |-> value]
Raised(exc) == [raises |-> TRUE, exc |-> exc, value |-> <<>>]

\* lines 213-221
SuccessResult(a, url, data) ==
    to_dict([success |-> TRUE,
             query |-> a.logql,
             logs |-> parse_log_entries(data),
             total |-> Len(parse_log_entries(data)),
             time_range |-> a.start_time \o " to " \o a.end_time,
             api_endpoint |-> QueryUrl(url),
             result_type |-> Get(data, "resultType", "streams")])

\* a backend-failure result that also carries an empty logs list and total 0
BackendFailureResult_EmptyLogs(a, url, loki_data) ==
    to_dict([success |-> FALSE,
             query |-> a.logql,
             logs |-> <<>>,
             total |-> 0,
             error |-> "Loki query failed: " \o Get(loki_data, "error", "Unknown Loki error"),
             api_endpoint |-> QueryUrl(url)])

\* lines 223-230
BackendFailureResult(a, url, loki_data) ==
    to_dict([success |-> FALSE,
             query |-> a.logql,
             error |-> "Loki query failed: " \o Get(loki_data, "error", "Unknown Loki error"),
             api_endpoint |-> QueryUrl(url)])

\* lines 232-239
HttpFailureResult(a, url, response) ==
    to_dict([success |-> FALSE,
             query |-> a.logql,
             error |-> "Loki API query failed: HTTP " \o ToString(response.status_code)
                       \o " - " \o response.text,
             api_endpoint |-> QueryUrl(url)])

\* lines 241-255: the except clause's result for exception message error_msg
ExceptResult(a, url, error_msg) ==
    to_dict([success |-> FALSE,
             query |-> a.logql,
             error |-> get_user_friendly_message(classify_error(error_msg), url),
             loki_url |-> url,
             error_type |-> classify_error(error_msg)])

\* lines 199-239: the try body from the response on
OnResponse(a, url, response) ==
    IF response.status_code = 200
    THEN IF response.json.kind = "invalid"
         THEN Raised(Exc("JSONDecodeError", "Expecting value: line 1 column 1 (char 0)"))
         ELSE IF response.json.kind # "dict"
         THEN Raised(Exc("AttributeError", "'list' object has no attribute 'get'"))
         ELSE LET loki_data == response.json.d
                  data == Get(loki_data, "data", [isdict |-> TRUE, d |-> <<>>])
              IN  IF Get(loki_data, "status", "") = "success"
                  THEN IF ~data.isdict
                       THEN Raised(Exc("TypeError",
                                       "argument of type 'NoneType' is not iterable"))
                       ELSE IF ParseRaises(data.d)
                       THEN Raised(Exc("ValueError",
                                       "invalid literal for int() with base 10: 'not-a-time'"))
                       ELSE Returned(SuccessResult(a, url, data.d))
                  ELSE Returned(BackendFailureResult(a, url, loki_data))
    ELSE Returned(HttpFailureResult(a, url, response))

---------------------------------------------------------------------------
(* query_tool.py: _get_service_account_token and _get_request_headers *)

DEV_FALLBACK_TOKEN == "dev-token"

\* a mounted file: absent (open raises FileNotFoundError), unreadable (open
\* raises PermissionError) or present with its text
NoFile == [state |-> "absent", text |-> ""]
LockedFile == [state |-> "unreadable", text |-> ""]
FileWith(text) == [state |-> "present", text |-> text]

\* os.getenv("LOKI_TOKEN"): None when unset, the value otherwise
EnvUnset == [set |-> FALSE, value |-> ""]
EnvSet(value) == [set |-> TRUE, value |-> value]

\* lines 51-53 and 59-62: with open(path) as f: return f.read().strip(), in
\* a try that catches FileNotFoundError only; absent is the caught case
ReadToken(file) ==
    IF file.state = "unreadable"
    THEN Raised(Exc("PermissionError", "[Errno 13] Permission denied"))
    ELSE Returned(Strip(file.text))

\* lines 41-62
get_service_account_token(c) ==
    IF c.env.set /\ c.env.value # "" THEN Returned(c.env.value)
    ELSE IF c.collector.state # "absent" THEN ReadToken(c.collector)
    ELSE IF c.service.state # "absent" THEN ReadToken(c.service)
    ELSE Returned(DEV_FALLBACK_TOKEN)

\* a header builder that attaches whatever token was resolved
get_request_headers_AnyToken(c) ==
    LET t == get_service_account_token(c)
    IN  IF ~t.raises /\ t.value # ""
        THEN ("Content-Type" :> "application/json") @@ ("Authorization" :> "Bearer " \o t.value)
        ELSE "Content-Type" :> "application/json"

\* lines 64-83; an exception of the token lookup is caught at line 80
get_request_headers(c) ==
    LET t == get_service_account_token(c)
    IN  IF ~t.raises /\ t.value # "" /\ t.value # DEV_FALLBACK_TOKEN
        THEN ("Content-Type" :> "application/json") @@ ("Authorization" :> "Bearer " \o t.value)
        ELSE "Content-Type" :> "application/json"

\* the deployments the client's calls run in: in the cluster with the
\* collector token mounted, and on a developer's machine with LOKI_URL set
\* and no token at all
Deployments ==
    {[loki_url |-> DEFAULT_LOKI_URL,
      creds |-> [env |-> EnvUnset, collector |-> FileWith("tok-collector\n"),
                 service |-> FileWith("tok-service\n")]],
     [loki_url |-> "http://localhost:3100",
      creds |-> [env |-> EnvUnset, collector |-> NoFile, service |-> NoFile]]}

---------------------------------------------------------------------------
(* The client: calls of query_logs against a backend that may fail *)

Calls == {1, 2}

LogqlArgs == {"{job=\"application\"}", "{namespace=\"shop\"} |= \"error\""}

CallArgs ==
    {[logql |-> q, start_time |-> "2024-01-01T10:00:00Z",
      end_time |-> "2024-01-01T11:00:00Z"] : q \in LogqlArgs}
    \cup {[logql |-> "{job=\"application\"}", start_time |-> "yesterday",
           end_time |-> "2024-01-01T11:00:00Z"]}

\* exceptions client.get raises: connection, name resolution, timeout (whose
\* text depends on the transport in use and may be empty), protocol
TransportFaults ==
    {Exc("ConnectError", "[Errno 111] Connection refused"),
     Exc("ConnectError", "[Errno -2] Name or service not known"),
     Exc("ConnectError", "All connection attempts failed"),
     Exc("ReadTimeout", ""),
     Exc("ReadTimeout", "The read operation timed out"),
     Exc("RemoteProtocolError", "Server disconnected without sending a response.")}

JsonInvalid == [kind |-> "invalid", d |-> <<>>]
JsonList == [kind |-> "list", d |-> <<>>]
JsonDict(d) == [kind |-> "dict", d |-> d]
DataDict(d) == [isdict |-> TRUE, d |-> d]
DataNull == [isdict |-> FALSE, d |-> <<>>]

StreamOf(time_unit, line) ==
    [result |-> <<[stream |-> [service_name |-> "payments"],
                   values |-> <<<<time_unit, line>>>>]>>,
     resultType |-> "streams"]

OneStream(line) == StreamOf("1704103200000000000", line)

\* what the backend may answer
Responses ==
    {[status_code |-> 200, text |-> "{...}", json |-> JsonDict(d)] :
        d \in {[status |-> "success", data |-> DataDict([result |-> <<>>])],
               [status |-> "success",
                data |-> DataDict(OneStream("{\"level\":\"error\",\"message\":\"db down\"}"))],
               [status |-> "success", data |-> DataDict(OneStream("2024 ERROR something failed"))],
               [status |-> "success", data |-> DataDict(StreamOf("not-a-time", "x"))],
               [status |-> "success", data |-> DataNull],
               [status |-> "success"],
               [status |-> "error",
                error |-> "parse error at line 1, col 5: syntax error: unexpected IDENTIFIER"],
               [status |-> "error"],
               [error |-> "too many outstanding requests"]}}
    \cup {[status_code |-> 200, text |-> "<html>gateway</html>", json |-> JsonInvalid],
          [status_code |-> 200, text |-> "[]", json |-> JsonList],
          [status_code |-> 401, text |-> "Unauthorized", json |-> JsonInvalid],
          [status_code |-> 400, text |-> "parse error : syntax error", json |-> JsonInvalid],
          [status_code |-> 500, text |-> "internal server error", json |-> JsonInvalid],
          [status_code |-> 503, text |-> "Service Unavailable", json |-> JsonInvalid]}

NoOutcome == [kind |-> "none"]
NoArgs == [logql |-> "", start_time |-> "", end_time |-> ""]

Init ==
    /\ \E d \in Deployments : loki_url = d.loki_url /\ creds = d.creds
    /\ pc = [c \in Calls |-> "idle"]
    /\ args = [c \in Calls |-> NoArgs]
    /\ sent = [c \in Calls |-> 0]
    /\ outcome = [c \in Calls |-> NoOutcome]
    /\ result = [c \in Calls |-> <<>>]
    /\ raised = [c \in Calls |-> FALSE]
    /\ result_data = <<>> /\ parse_pc = "idle" /\ log_entries = <<>>
    /\ plan_in = <<>> /\ plan_pc = "idle" /\ queries = <<>>
    /\ cls_in = <<>> /\ cls_pc = "idle" /\ cls_out = ""
    /\ cred_pc = "idle" /\ token = <<>> /\ headers = <<>>
    /\ agg_in = <<>> /\ agg_pc = "idle" /\ agg_out = <<>>
    /\ time_in = <<>> /\ time_pc = "idle" /\ time_out = <<>>

\* a tool that keeps the last result on itself, so that every call sees it
Finish_SharedSlot(c, a, body) ==
    /\ pc' = [pc EXCEPT ![c] = "done"]
    /\ IF ~body.raises
       THEN result' = [d \in Calls |-> body.value] /\ UNCHANGED raised
       ELSE IF CaughtByQueryLogs(body.exc.type)
       THEN /\ result' = [d \in Calls |-> ExceptResult(a, loki_url, body.exc.msg)]
            /\ UNCHANGED raised
       ELSE raised' = [raised EXCEPT ![c] = TRUE] /\ UNCHANGED result

\* the call leaves query_logs: body is what the try body did
Finish(c, a, body) ==
    /\ pc' = [pc EXCEPT ![c] = "done"]
    /\ IF ~body.raises
       THEN result' = [result EXCEPT ![c] = body.value] /\ UNCHANGED raised
       ELSE IF CaughtByQueryLogs(body.exc.type)
       THEN /\ result' = [result EXCEPT ![c] = ExceptResult(a, loki_url, body.exc.msg)]
            /\ UNCHANGED raised
       ELSE raised' = [raised EXCEPT ![c] = TRUE] /\ UNCHANGED result

\* lines 174-197: query_logs up to the awaited client.get
Call(c, a) ==
    /\ pc[c] = "idle"
    /\ args' = [args EXCEPT ![c] = a]
    /\ IF IsIsoFormat(a.start_time) /\ IsIsoFormat(a.end_time)
       THEN /\ pc' = [pc EXCEPT ![c] = "awaiting"]
            /\ sent' = [sent EXCEPT ![c] = @ + 1]
            /\ UNCHANGED <<outcome, result, raised>>
       ELSE /\ outcome' = [outcome EXCEPT ![c] = [kind |-> "bad_time"]]
            /\ Finish(c, a, Raised(Exc("ValueError", "Invalid isoformat string: '"
                                                   \o a.start_time \o "'")))
            /\ UNCHANGED sent
    /\ headers' = get_request_headers(creds)
    /\ UNCHANGED <<loki_url, creds, cred_pc, token, parseVars, planVars, clsVars,
                   aggVars, timeVars>>

\* a client that sends the request again, up to three times, when client.get raises
TransportError_Retries(c, e) ==
    /\ pc[c] = "awaiting"
    /\ sent[c] < 3
    /\ sent' = [sent EXCEPT ![c] = @ + 1]
    /\ UNCHANGED <<loki_url, pc, args, outcome, result, raised, parseVars, planVars, clsVars,
                   credVars, aggVars, timeVars>>

\* client.get raises e
TransportError(c, e) ==
    /\ pc[c] = "awaiting"
    /\ outcome' = [outcome EXCEPT ![c] = [kind |-> "exception", exc |-> e]]
    /\ Finish(c, args[c], Raised(e))
    /\ UNCHANGED <<loki_url, args, sent, parseVars, planVars, clsVars, credVars, aggVars, timeVars>>

\* client.get returns response
HttpResponse(c, response) ==
    /\ pc[c] = "awaiting"
    /\ outcome' = [outcome EXCEPT ![c] = [kind |-> "response", response |-> response]]
    /\ Finish(c, args[c], OnResponse(args[c], loki_url, response))
    /\ UNCHANGED <<loki_url, args, sent, parseVars, planVars, clsVars, credVars, aggVars, timeVars>>

\* the caller cancels the task while it awaits client.get
Cancel(c) ==
    /\ pc[c] = "awaiting"
    /\ outcome' = [outcome EXCEPT ![c] = [kind |-> "cancelled"]]
    /\ Finish(c, args[c], Raised(Exc("CancelledError", "")))
    /\ UNCHANGED <<loki_url, args, sent, parseVars, planVars, clsVars, credVars, aggVars, timeVars>>

Next ==
    \E c \in Calls :
        \/ \E a \in CallArgs : Call(c, a)
        \/ \E e \in TransportFaults : TransportError(c, e)
        \/ \E r \in Responses : HttpResponse(c, r)
        \/ Cancel(c)

Spec == Init /\ [][Next]_vars

\* the request's outcome is one of the backend or network faults: a transport
\* exception (timeouts included), a status other than 200, a body that is no
\* JSON object, or a backend status other than "success"
IsFault(o) ==
    \/ o.kind = "exception"
    \/ /\ o.kind = "response"
       /\ \/ o.response.status_code # 200
          \/ o.response.json.kind # "dict"
          \/ Get(o.response.json.d, "status", "") # "success"

Failed(c) ==
    pc[c] = "done" /\ ~raised[c] /\ "success" \in DOMAIN result[c] /\ ~result[c]["success"]

\* C1: query_logs never raises for a backend or network fault: whatever the
\* request's outcome (transport exception, timeout, non-200 status, 200 with a
\* backend status other than "success", unparsable body), the call returns a
\* result with success = false. Only the caller's cancellation leaves the call
\* as an exception.
C1_FaultsBecomeFailureResults ==
    \A c \in Calls :
        /\ raised[c] => outcome[c].kind = "cancelled"
        /\ (pc[c] = "done" /\ IsFault(outcome[c])) => Failed(c)

\* a 200 answer whose body is not JSON ended as a failure result
C1_Witness ==
    \E c \in Calls :
        /\ Failed(c)
        /\ outcome[c].kind = "response"
        /\ outcome[c].response.status_code = 200
        /\ outcome[c].response.json.kind = "invalid"

\* the most specific message of a fault: the backend's error string when it
\* sent one, else the body of a non-200 answer, else the exception's text
RawMessage(o) ==
    IF o.kind = "exception" THEN o.exc.msg
    ELSE IF o.kind # "response" THEN ""
    ELSE IF o.response.status_code # 200 THEN o.response.text
    ELSE IF o.response.json.kind = "dict" THEN Get(o.response.json.d, "error", "")
    ELSE ""

\* C2: every failed result carries a classified error category, on the
\* backend-failure path, the non-2xx path and the transport-fault path alike,
\* and the category is the classifier's verdict on the most specific message.
C2_EveryFailureIsClassified ==
    \A c \in Calls :
        (Failed(c) /\ IsFault(outcome[c]) /\ RawMessage(outcome[c]) # "") =>
            /\ "error_type" \in DOMAIN result[c]
            /\ result[c]["error_type"] = classify_error(RawMessage(outcome[c]))

\* C3: the error text of a failed result never contains the raw backend or
\* transport message (backend error string, response body, exception text).
C3_ErrorNeverEchoesRawMessage ==
    \A c \in Calls :
        (Failed(c) /\ IsFault(outcome[c]) /\ RawMessage(outcome[c]) # "") =>
            ~Contains(result[c]["error"], RawMessage(outcome[c]))

\* C17: every successful result has both keys logs and total, and total is
\* the number of entries in logs, 0 for the empty list.
C17_TotalCountsLogs ==
    \A c \in Calls :
        (pc[c] = "done" /\ ~raised[c] /\ result[c]["success"]) =>
            /\ {"logs", "total"} \subseteq DOMAIN result[c]
            /\ result[c]["total"] = Len(result[c]["logs"])

\* one call succeeded with no entries and total 0, the other with one entry
C17_Witness ==
    \E c, d \in Calls :
        /\ pc[c] = "done" /\ ~raised[c] /\ result[c]["success"]
        /\ result[c]["logs"] = <<>> /\ result[c]["total"] = 0
        /\ pc[d] = "done" /\ ~raised[d] /\ result[d]["success"]
        /\ result[d]["total"] = 1

\* C18: a call of query_logs sends at most one HTTP request: none before it
\* is made or when its time arguments are rejected, one while it awaits the
\* answer, and still one after it ended, failed or timed out requests
\* included.
C18_OneRequestPerCall ==
    \A c \in Calls :
        /\ sent[c] <= 1
        /\ pc[c] = "awaiting" => sent[c] = 1
        /\ (pc[c] = "done" /\ outcome[c].kind # "bad_time") => sent[c] = 1
        /\ (pc[c] = "idle" \/ outcome[c].kind = "bad_time") => sent[c] = 0

\* a call whose request timed out ended as a failure after its one request
C18_Witness ==
    \E c \in Calls :
        /\ pc[c] = "done"
        /\ outcome[c].kind = "exception"
        /\ outcome[c].exc.type = "ReadTimeout"
        /\ Failed(c)
        /\ sent[c] = 1

\* the data object of a 200 answer, {} when the key is absent (line 204)
ResponseData(o) == Get(o.response.json.d, "data", DataDict(<<>>)).d

\* C25: concurrent calls of query_logs share no mutable state. A call that
\* has not returned has no result; a returned result carries its own call's
\* query and time range, and its entries are the parse of its own call's
\* backend response; two calls with the same arguments and the same backend
\* outcome end the same way, whatever the other call did in between.
C25_CallsShareNoState ==
    \A c \in Calls :
        /\ pc[c] # "done" => result[c] = <<>> /\ ~raised[c]
        /\ (pc[c] = "done" /\ ~raised[c]) =>
              /\ result[c]["query"] = args[c].logql
              /\ result[c]["success"] =>
                    /\ outcome[c].kind = "response"
                    /\ result[c]["time_range"] =
                          args[c].start_time \o " to " \o args[c].end_time
                    /\ result[c]["logs"] = parse_log_entries(ResponseData(outcome[c]))
        /\ \A d \in Calls :
              (pc[c] = "done" /\ pc[d] = "done"
                  /\ args[c] = args[d] /\ outcome[c] = outcome[d]) =>
                      result[c] = result[d] /\ raised[c] = raised[d]

\* one call returned its entries while another, with a different query, was
\* still awaiting its answer
C25_Witness ==
    \E c, d \in Calls :
        /\ pc[c] = "awaiting" /\ pc[d] = "done" /\ ~raised[d]
        /\ args[c].logql # args[d].logql
        /\ result[d]["success"] /\ Len(result[d]["logs"]) = 1
        /\ result[c] = <<>>

\* the exceptions the HTTP library raises when the per-call timeout fires
TimeoutExceptions == {"ConnectTimeout", "ReadTimeout", "WriteTimeout", "PoolTimeout"}

\* C26: when the per-call network timeout fires, the call returns a failed
\* result whose error category is "timeout"; it does not raise.
C26_TimeoutIsClassifiedAsTimeout ==
    \A c \in Calls :
        (pc[c] = "done" /\ outcome[c].kind = "exception"
            /\ outcome[c].exc.type \in TimeoutExceptions) =>
                /\ ~raised[c]
                /\ Failed(c)
                /\ "error_type" \in DOMAIN result[c]
                /\ result[c]["error_type"] = "timeout"

\* C29: the result of query_logs is consistent on every path: with success
\* true it has logs, total and time_range and neither error nor error_type;
\* with success false it has error and neither logs nor total.
C29_EnvelopeIsConsistent ==
    \A c \in Calls :
        (pc[c] = "done" /\ ~raised[c]) =>
            /\ {"success", "query"} \subseteq DOMAIN result[c]
            /\ result[c]["success"] =>
                  /\ {"logs", "total", "time_range"} \subseteq DOMAIN result[c]
                  /\ DOMAIN result[c] \cap {"error", "error_type"} = {}
            /\ ~result[c]["success"] =>
                  /\ "error" \in DOMAIN result[c]
                  /\ DOMAIN result[c] \cap {"logs", "total"} = {}

\* the three failure paths and the success path were all taken: a backend
\* failure and a success, or a non-200 answer and a transport fault
C29_Witness ==
    \E c, d \in Calls :
        /\ pc[c] = "done" /\ pc[d] = "done" /\ ~raised[c] /\ ~raised[d]
        /\ outcome[c].kind = "response" /\ outcome[c].response.status_code = 200
        /\ ~result[c]["success"]
        /\ "error_type" \notin DOMAIN result[c]
        /\ result[d]["success"]


---------------------------------------------------------------------------
(* Credential resolution on its own: the two methods in a drawn environment *)

EnvValues == {EnvUnset, EnvSet(""), EnvSet("tok-env"), EnvSet(DEV_FALLBACK_TOKEN)}

CollectorFiles ==
    {NoFile, LockedFile, FileWith(""), FileWith(" \n"), FileWith("tok-collector\n"),
     FileWith("dev-token\n")}

ServiceFiles == {NoFile, LockedFile, FileWith(""), FileWith("tok-service\n")}

InitCreds ==
    /\ creds \in [env : EnvValues, collector : CollectorFiles, service : ServiceFiles]
    /\ cred_pc = "ready"
    /\ token = <<>>
    /\ headers = <<>>
    /\ loki_url = ""
    /\ pc = <<>> /\ args = <<>> /\ sent = <<>>
    /\ outcome = <<>> /\ result = <<>> /\ raised = <<>>
    /\ result_data = <<>> /\ parse_pc = "idle" /\ log_entries = <<>>
    /\ plan_in = <<>> /\ plan_pc = "idle" /\ queries = <<>>
    /\ cls_in = <<>> /\ cls_pc = "idle" /\ cls_out = ""
    /\ agg_in = <<>> /\ agg_pc = "idle" /\ agg_out = <<>>
    /\ time_in = <<>> /\ time_pc = "idle" /\ time_out = <<>>

\* self._get_service_account_token()
GetToken ==
    /\ cred_pc = "ready"
    /\ cred_pc' = "token"
    /\ token' = get_service_account_token(creds)
    /\ UNCHANGED <<creds, headers, clientVars, parseVars, planVars, clsVars, aggVars, timeVars>>

\* self._get_request_headers()
GetHeaders ==
    /\ cred_pc = "ready"
    /\ cred_pc' = "headers"
    /\ headers' = get_request_headers(creds)
    /\ UNCHANGED <<creds, token, clientVars, parseVars, planVars, clsVars, aggVars, timeVars>>

NextCreds == GetToken \/ GetHeaders

SpecCreds == InitCreds /\ [][NextCreds]_vars

\* the credentials the three sources of the environment hold, in the order
\* environment override, collector file, default service file; "" for a
\* source that yields none (unset, absent, unreadable or empty)
SourceCredentials ==
    << IF creds.env.set THEN creds.env.value ELSE "",
       IF creds.collector.state = "present" THEN Strip(creds.collector.text) ELSE "",
       IF creds.service.state = "present" THEN Strip(creds.service.text) ELSE "" >>

\* C19: the request headers carry an Authorization value only when it is
\* "Bearer " and a credential one of the sources holds, and that value is
\* never the placeholder "dev-token"; when the placeholder is what resolution
\* falls back to, there is no Authorization header.
C19_PlaceholderNeverSent ==
    cred_pc = "headers" =>
        /\ "Authorization" \in DOMAIN headers =>
              /\ headers["Authorization"] # "Bearer " \o "dev-token"
              /\ \E i \in 1..3 :
                    /\ SourceCredentials[i] \notin {"", "dev-token"}
                    /\ headers["Authorization"] = "Bearer " \o SourceCredentials[i]
        /\ (\A i \in 1..3 : SourceCredentials[i] = "") =>
              "Authorization" \notin DOMAIN headers

\* headers were built where no source exists and resolution falls back to
\* the placeholder: no Authorization header
C19_Witness ==
    /\ cred_pc = "headers"
    /\ ~creds.env.set /\ creds.collector.state = "absent" /\ creds.service.state = "absent"
    /\ DOMAIN headers = {"Content-Type"}

\* C20: the resolved credential is that of the first source, in the order
\* environment override, collector file, default service file, that holds a
\* usable one; a source that is absent, unreadable or empty is passed over.
C20_FirstUsableSourceWins ==
    cred_pc = "token" =>
        \A i \in 1..3 :
            (/\ SourceCredentials[i] # ""
             /\ \A j \in 1..(i - 1) : SourceCredentials[j] = "") =>
                /\ ~token.raises
                /\ token.value = SourceCredentials[i]

---------------------------------------------------------------------------
(* The classifier on its own: its two class methods on drawn arguments *)

Endpoints == {DEFAULT_LOKI_URL, "http://localhost:3100", "https://loki.example.com/"}

Messages ==
    {"[Errno 111] Connection refused",
     "Connection refused after timeout",
     "The read operation timed out",
     "HTTP 401 Unauthorized",
     "504 Gateway Timeout",
     "parse error at line 1",
     "Too Many Requests",
     "HTTP 503 Service Unavailable",
     "access denied: quota exceeded",
     "something else",
     ""}

\* every phrase of the table, as a message of its own
PhraseMessages ==
    UNION {{ERROR_PATTERNS[i].patterns[k] : k \in 1..Len(ERROR_PATTERNS[i].patterns)} :
              i \in 1..Len(ERROR_PATTERNS)}

InitClassify ==
    /\ cls_in \in [error_type : LokiErrorType, loki_url : Endpoints,
                   message : Messages \cup PhraseMessages]
    /\ cls_pc = "ready"
    /\ cls_out = ""
    /\ creds = <<>> /\ cred_pc = "idle" /\ token = <<>> /\ headers = <<>>
    /\ loki_url = ""
    /\ pc = <<>> /\ args = <<>> /\ sent = <<>>
    /\ outcome = <<>> /\ result = <<>> /\ raised = <<>>
    /\ result_data = <<>> /\ parse_pc = "idle" /\ log_entries = <<>>
    /\ plan_in = <<>> /\ plan_pc = "idle" /\ queries = <<>>
    /\ agg_in = <<>> /\ agg_pc = "idle" /\ agg_out = <<>>
    /\ time_in = <<>> /\ time_pc = "idle" /\ time_out = <<>>

\* LokiErrorClassifier.classify_error(message)
Classify ==
    /\ cls_pc = "ready"
    /\ cls_pc' = "classified"
    /\ cls_out' = classify_error(cls_in.message)
    /\ UNCHANGED <<cls_in, clientVars, parseVars, planVars, credVars, aggVars, timeVars>>

\* LokiErrorClassifier.get_user_friendly_message(error_type, loki_url)
Describe ==
    /\ cls_pc = "ready"
    /\ cls_pc' = "described"
    /\ cls_out' = get_user_friendly_message(cls_in.error_type, cls_in.loki_url)
    /\ UNCHANGED <<cls_in, clientVars, parseVars, planVars, credVars, aggVars, timeVars>>

NextClassify == Classify \/ Describe

SpecClassify == InitClassify /\ [][NextClassify]_vars

\* C4: for every error category and every endpoint, the user message names
\* the endpoint: the endpoint string occurs in it.
C4_UserMessageNamesEndpoint ==
    cls_pc = "described" => Contains(cls_out, cls_in.loki_url)

\* the categories in the order the claim tries them
CategoryOrder ==
    <<"connection_refused", "dns_resolution_failed", "http_error", "timeout",
      "authentication_failed", "service_unavailable", "query_syntax_error", "rate_limited">>

\* category i of the table has a phrase occurring in the lower-cased message
CategoryMatches(i, message) ==
    \E k \in 1..Len(ERROR_PATTERNS[i].patterns) :
        Contains(Lower(message), ERROR_PATTERNS[i].patterns[k])

\* C16: classify_error returns the first category, in the order
\* connection_refused, dns_resolution_failed, http_error, timeout,
\* authentication_failed, service_unavailable, query_syntax_error,
\* rate_limited, with a phrase occurring case-insensitively in the message,
\* and unknown when no category has one.
C16_FirstCategoryInTableOrderWins ==
    cls_pc = "classified" =>
        /\ \A i \in 1..Len(CategoryOrder) :
              /\ ERROR_PATTERNS[i].type = CategoryOrder[i]
              /\ cls_out = CategoryOrder[i] <=>
                    /\ CategoryMatches(i, cls_in.message)
                    /\ \A j \in 1..(i - 1) : ~CategoryMatches(j, cls_in.message)
        /\ cls_out = "unknown" <=>
              \A i \in 1..Len(CategoryOrder) : ~CategoryMatches(i, cls_in.message)

\* a message with both "connection refused" and "timeout" was classified as
\* connection_refused
C16_Witness ==
    /\ cls_pc = "classified"
    /\ cls_in.message = "Connection refused after timeout"
    /\ CategoryMatches(1, cls_in.message) /\ CategoryMatches(4, cls_in.message)
    /\ cls_out = "connection_refused"

\* C28: every phrase of the classifier's table is effective: a message that
\* is exactly phrase k of category i is classified as category i, so that no
\* phrase is shadowed by a phrase of an earlier category occurring in it.
C28_EveryPhraseIsEffective ==
    cls_pc = "classified" =>
        \A i \in 1..Len(ERROR_PATTERNS) :
            \A k \in 1..Len(ERROR_PATTERNS[i].patterns) :
                cls_in.message = ERROR_PATTERNS[i].patterns[k] =>
                    cls_out = ERROR_PATTERNS[i].type

---------------------------------------------------------------------------
(* logql_service.py: generate_logql_from_question *)

\* any(word in question_lower for word in words)
AnyWord(q, words) == \E k \in 1..Len(words) : Contains(q, words[k])

\* the keyword lists of the if/elif chain, in the order it tests them
ErrorWords ==
    <<"error", "errors", "failed", "failure", "exception", "panic", "fatal", "critical">>
WarningWords == <<"warning", "warn", "warnings">>
PerformanceWords == <<"slow", "performance", "latency", "response time", "timeout">>
HttpWords == <<"http", "api", "request", "response", "status", "endpoint">>
AuthWords ==
    <<"auth", "authentication", "login", "logout", "security", "unauthorized", "forbidden">>
DatabaseWords == <<"database", "db", "sql", "query", "connection">>
LifecycleWords == <<"startup", "start", "boot", "shutdown", "restart", "deploy">>
ServiceWords == <<"service", "pod", "container">>
VolumeWords == <<"volume", "count", "frequency", "rate", "how many", "total">>

\* an interval selection whose boundaries fall in the larger interval
RateInterval_StrictBounds(start_ts, end_ts) ==
    LET duration_seconds == end_ts - start_ts
    IN  IF duration_seconds < 1 * 3600 THEN "5m"
        ELSE IF duration_seconds < 6 * 3600 THEN "15m"
        ELSE IF duration_seconds < 24 * 3600 THEN "1h"
        ELSE "6h"

\* lines 34-41: duration_seconds / 3600 <= h exactly when duration_seconds <= 3600 h
RateInterval(start_ts, end_ts) ==
    LET duration_seconds == end_ts - start_ts
    IN  IF duration_seconds <= 1 * 3600 THEN "5m"
        ELSE IF duration_seconds <= 6 * 3600 THEN "15m"
        ELSE IF duration_seconds <= 24 * 3600 THEN "1h"
        ELSE "6h"

\* lines 47-52; namespace None is the empty string (both are falsy)
BaseSelector(namespace, is_fleet_wide) ==
    IF is_fleet_wide \/ namespace = ""
    THEN "{job=\"application\"}"
    ELSE "{namespace=\"" \o namespace \o "\"}"

NamespaceFilter(namespace, is_fleet_wide) ==
    IF is_fleet_wide \/ namespace = ""
    THEN ""
    ELSE ", namespace=\"" \o namespace \o "\""

\* an error branch whose timeout addition takes the place of the base queries
ErrorQueries_TimeoutReplaces(q, base) ==
    IF Contains(q, "timeout")
    THEN <<base \o " |~ \"(?i)timeout\"">>
    ELSE << base \o " |~ \"(?i)(error|failed|failure|exception|panic|fatal|critical)\"",
            base \o " | json | level=\"error\"",
            base \o " | logfmt | level=\"error\"" >>

\* lines 59-75
ErrorQueries(q, base) ==
    << base \o " |~ \"(?i)(error|failed|failure|exception|panic|fatal|critical)\"",
       base \o " | json | level=\"error\"",
       base \o " | logfmt | level=\"error\"" >>
    \o (IF Contains(q, "database") \/ Contains(q, "db")
        THEN <<base \o " |~ \"(?i)(database|db|sql).*error\"">> ELSE <<>>)
    \o (IF Contains(q, "connection")
        THEN <<base \o " |~ \"(?i)connection.*(error|failed|refused|timeout)\"">> ELSE <<>>)
    \o (IF Contains(q, "timeout")
        THEN <<base \o " |~ \"(?i)timeout\"">> ELSE <<>>)
    \o (IF Contains(q, "authentication") \/ Contains(q, "auth")
        THEN <<base \o " |~ \"(?i)(auth|authentication).*(error|failed|denied)\"">> ELSE <<>>)

\* lines 80-84
WarningQueries(base) ==
    << base \o " | json | level=\"warning\"",
       base \o " | logfmt | level=\"warn\"",
       base \o " |~ \"(?i)(warning|warn)\"" >>

\* lines 89-93
PerformanceQueries(base) ==
    << base \o " |~ \"(?i)(slow|latency|timeout|took.*ms|took.*seconds)\"",
       base \o " | json | duration > 1000",
       base \o " |~ \"response_time|response.*ms\"" >>

\* lines 100-109
HttpQueries(q, base) ==
    IF Contains(q, "500") \/ Contains(q, "server error")
    THEN <<base \o " |~ \"(?i)(status.*5[0-9][0-9]|500|502|503|504)\"">>
    ELSE IF Contains(q, "400") \/ Contains(q, "client error")
    THEN <<base \o " |~ \"(?i)(status.*4[0-9][0-9]|400|401|403|404)\"">>
    ELSE << base \o " | json | status_code >= 400",
            base \o " |~ \"(?i)(GET|POST|PUT|DELETE|PATCH).*HTTP\"",
            base \o " |~ \"status.*[4-5][0-9][0-9]\"" >>

\* lines 114-118
AuthQueries(base) ==
    << base \o " |~ \"(?i)(auth|authentication|login|logout|security)\"",
       base \o " |~ \"(?i)(unauthorized|forbidden|denied|invalid.*token)\"",
       base \o " | json | user != \"\"" >>

\* lines 123-126
DatabaseQueries(base) ==
    << base \o " |~ \"(?i)(database|db|sql|mysql|postgres|mongodb)\"",
       base \o " |~ \"(?i)(connection.*pool|query.*time|transaction)\"" >>

\* lines 131-135
LifecycleQueries(base) ==
    << base \o " |~ \"(?i)(starting|started|startup|boot|ready|listening)\"",
       base \o " |~ \"(?i)(shutdown|stopping|stopped|graceful)\"",
       base \o " |~ \"(?i)(deploy|deployment|version|build)\"" >>

\* re.search(kw + r'\s+(\w+)', q): group(1) of the leftmost match, "" if none
WordAfter(q, kw) ==
    LET ok(i) == /\ MatchAt(q, i, kw)
                 /\ RunEnd(q, i + Len(kw), SpaceChars) > i + Len(kw)
                 /\ RunEnd(q, RunEnd(q, i + Len(kw), SpaceChars), WordChars)
                        > RunEnd(q, i + Len(kw), SpaceChars)
        starts == {i \in 1..Len(q) : ok(i)}
    IN  IF starts = {} THEN ""
        ELSE LET w == RunEnd(q, Min(starts) + Len(kw), SpaceChars)
             IN  SubSeq(q, w, RunEnd(q, w, WordChars) - 1)

\* re.search(r'(\w+)\s+' + kw, q): group(1) of the leftmost match, "" if none
WordBefore(q, kw) ==
    LET ok(p) == /\ Ch(q, p) \in WordChars
                 /\ RunEnd(q, RunEnd(q, p, WordChars), SpaceChars) > RunEnd(q, p, WordChars)
                 /\ MatchAt(q, RunEnd(q, RunEnd(q, p, WordChars), SpaceChars), kw)
        starts == {p \in 1..Len(q) : ok(p)}
    IN  IF starts = {} THEN ""
        ELSE SubSeq(q, Min(starts), RunEnd(q, Min(starts), WordChars) - 1)

\* a loop that tries `X service` before `service X`
ServiceName_SuffixFirst(q) ==
    IF WordBefore(q, "service") # "" THEN WordBefore(q, "service")
    ELSE IF WordAfter(q, "service") # "" THEN WordAfter(q, "service")
    ELSE IF WordAfter(q, "pod") # "" THEN WordAfter(q, "pod")
    ELSE WordAfter(q, "container")

\* lines 142-154: the first of the four patterns that matches gives the name
ServiceName(q) ==
    IF WordAfter(q, "service") # "" THEN WordAfter(q, "service")
    ELSE IF WordBefore(q, "service") # "" THEN WordBefore(q, "service")
    ELSE IF WordAfter(q, "pod") # "" THEN WordAfter(q, "pod")
    ELSE WordAfter(q, "container")

\* lines 156-163
ServiceQueries(q, base, namespace_filter) ==
    IF ServiceName(q) # ""
    THEN << "{service_name=\"" \o ServiceName(q) \o "\"" \o namespace_filter \o "}",
            "{app=\"" \o ServiceName(q) \o "\"" \o namespace_filter \o "}",
            "{container=\"" \o ServiceName(q) \o "\"" \o namespace_filter \o "}" >>
    ELSE <<base>>

\* lines 168-172
VolumeQueries(base, rate_interval) ==
    << "sum by (namespace) (count_over_time(" \o base \o "[" \o rate_interval \o "]))",
       "sum by (level) (count_over_time(" \o base \o "[" \o rate_interval \o "]))",
       "sum by (service_name) (count_over_time(" \o base \o "[" \o rate_interval \o "]))" >>

\* the default branch emitting the bare selector three times
DefaultQueries_Repeated(base) == <<base, base, base>>

\* lines 177-181
DefaultQueries(base) ==
    << base,
       base \o " | json | level != \"debug\"",
       base \o " | logfmt | level != \"debug\"" >>

\* the ten branches' queries, by position in the chain
BranchQueries(i, q, base, namespace_filter, rate_interval) ==
    CASE i = 1 -> ErrorQueries(q, base)
      [] i = 2 -> WarningQueries(base)
      [] i = 3 -> PerformanceQueries(base)
      [] i = 4 -> HttpQueries(q, base)
      [] i = 5 -> AuthQueries(base)
      [] i = 6 -> DatabaseQueries(base)
      [] i = 7 -> LifecycleQueries(base)
      [] i = 8 -> ServiceQueries(q, base, namespace_filter)
      [] i = 9 -> VolumeQueries(base, rate_interval)
      [] OTHER -> DefaultQueries(base)

TopicWords ==
    <<ErrorWords, WarningWords, PerformanceWords, HttpWords, AuthWords,
      DatabaseWords, LifecycleWords, ServiceWords, VolumeWords>>

\* independent ifs in place of the elif chain: every matching branch adds
TopicQueries_EveryMatch(q, base, namespace_filter, rate_interval) ==
    LET F[i \in 0..Len(TopicWords)] ==
            IF i = 0 THEN <<>>
            ELSE F[i - 1] \o (IF AnyWord(q, TopicWords[i])
                              THEN BranchQueries(i, q, base, namespace_filter, rate_interval)
                              ELSE <<>>)
    IN  IF F[Len(TopicWords)] = <<>> THEN DefaultQueries(base) ELSE F[Len(TopicWords)]

\* lines 54-181: the if/elif chain
TopicQueries(q, base, namespace_filter, rate_interval) ==
    IF AnyWord(q, ErrorWords) THEN ErrorQueries(q, base)
    ELSE IF AnyWord(q, WarningWords) THEN WarningQueries(base)
    ELSE IF AnyWord(q, PerformanceWords) THEN PerformanceQueries(base)
    ELSE IF AnyWord(q, HttpWords) THEN HttpQueries(q, base)
    ELSE IF AnyWord(q, AuthWords) THEN AuthQueries(base)
    ELSE IF AnyWord(q, DatabaseWords) THEN DatabaseQueries(base)
    ELSE IF AnyWord(q, LifecycleWords) THEN LifecycleQueries(base)
    ELSE IF AnyWord(q, ServiceWords) THEN ServiceQueries(q, base, namespace_filter)
    ELSE IF AnyWord(q, VolumeWords) THEN VolumeQueries(base, rate_interval)
    ELSE DefaultQueries(base)

TimeUnitWords == {"minute", "hour", "day"}

\* re.search(r'last\s+(\d+)\s*(minute|hour|day)', q): the leftmost match as
\* [found, amount (the digits), unit]
TimeSearch(q) ==
    LET digitsAt(i) == RunEnd(q, i + 4, SpaceChars)
        digitsEnd(i) == RunEnd(q, digitsAt(i), DigitChars)
        unitAt(i) == RunEnd(q, digitsEnd(i), SpaceChars)
        ok(i) == /\ MatchAt(q, i, "last")
                 /\ digitsAt(i) > i + 4
                 /\ digitsEnd(i) > digitsAt(i)
                 /\ \E u \in TimeUnitWords : MatchAt(q, unitAt(i), u)
        starts == {i \in 1..Len(q) : ok(i)}
    IN  IF starts = {} THEN [found |-> FALSE, amount |-> "", unit |-> ""]
        ELSE LET i == Min(starts)
             IN  [found |-> TRUE,
                  amount |-> SubSeq(q, digitsAt(i), digitsEnd(i) - 1),
                  unit |-> CHOOSE u \in TimeUnitWords : MatchAt(q, unitAt(i), u)]

\* the time step without the conversion of days to hours
TimeQueries_DaysAsHours(q, base) ==
    IF TimeSearch(q).found
    THEN <<"rate(" \o base \o "[" \o ToString(DecValue(TimeSearch(q).amount))
           \o (IF TimeSearch(q).unit = "minute" THEN "m" ELSE "h") \o "])">>
    ELSE <<>>

\* lines 184-199: the rate query appended for "last N minute|hour|day"
TimeQueries(q, base) ==
    IF /\ Contains(q, "last")
       /\ \E u \in TimeUnitWords : Contains(q, u)
       /\ TimeSearch(q).found
    THEN LET amount == DecValue(TimeSearch(q).amount)
             unit == TimeSearch(q).unit
             interval == IF unit = "minute" THEN ToString(amount) \o "m"
                         ELSE IF unit = "hour" THEN ToString(amount) \o "h"
                         ELSE ToString(amount * 24) \o "h"
         IN  <<"rate(" \o base \o "[" \o interval \o "])">>
    ELSE <<>>

\* int(text) raises ValueError: CPython refuses to convert a decimal text of
\* more than 4300 digits (the default of sys.get_int_max_str_digits())
IntRaises(text) == Len(text) > 4300

\* lines 184-188: the call raises, at int(time_match.group(1))
PlanRaises(question) ==
    LET q == Lower(question)
    IN  /\ Contains(q, "last")
        /\ \E u \in TimeUnitWords : Contains(q, u)
        /\ TimeSearch(q).found
        /\ IntRaises(TimeSearch(q).amount)

\* a final step that drops blank queries and returns the rest in reverse
Deduplicate_Reversed(qs) ==
    LET kept == SelectSeq(qs, LAMBDA x : Strip(x) # "")
    IN  [k \in 1..Len(kept) |-> kept[Len(kept) + 1 - k]]

RECURSIVE DropSeen(_, _)
\* list(dict.fromkeys(qs)): later repeats removed, first occurrences in order
DropSeen(qs, seen) ==
    IF qs = <<>> THEN <<>>
    ELSE IF Head(qs) \in seen THEN DropSeen(Tail(qs), seen)
    ELSE <<Head(qs)>> \o DropSeen(Tail(qs), seen \cup {Head(qs)})

\* line 202
Deduplicate(qs) == DropSeen(SelectSeq(qs, LAMBDA x : Strip(x) # ""), {})

generate_logql_from_question(question, namespace, start_ts, end_ts, is_fleet_wide) ==
    LET question_lower == Lower(question)
        base == BaseSelector(namespace, is_fleet_wide)
    IN  Deduplicate(
            TopicQueries(question_lower, base, NamespaceFilter(namespace, is_fleet_wide),
                         RateInterval(start_ts, end_ts))
            \o TimeQueries(question_lower, base))

---------------------------------------------------------------------------
(* The planner on its own: one call of generate_logql_from_question *)

\* phrases per question in the drawn inputs
MaxPhrases == 2

Phrases ==
    {"Errors", "warnings", "slow", "api 500", "login", "database", "restart",
     "service", "count", "payments", "last 15 minutes", "Last 3 hours", "last 2 days"}

RECURSIVE Join(_)
\* " ".join(words)
Join(words) ==
    IF words = <<>> THEN ""
    ELSE IF Len(words) = 1 THEN words[1]
    ELSE words[1] \o " " \o Join(Tail(words))

RECURSIVE Repeat(_, _)
\* c * n
Repeat(c, n) ==
    IF n = 0 THEN ""
    ELSE IF n = 1 THEN c
    ELSE Repeat(c, n \div 2) \o Repeat(c, n - n \div 2)

\* a question whose "last N minutes" has an N of 4301 digits
LongQuestion == "last " \o Repeat("9", 4301) \o " minutes"

\* error questions meeting several of the error branch's sub-conditions
ErrorQuestions ==
    {"failed database connection timeout auth",
     "connection error",
     "authentication timeout failure",
     "db exception",
     "panic in payments last 3 hours"}

\* questions of the service/pod/container branch: one or several of its four
\* patterns match, or none does
ServiceQuestions ==
    {"cart service in pod web",
     "checkout service",
     "Pod Web_1 container nginx",
     "container nginx last 15 minutes",
     "list services",
     "the pods",
     "containers"}

Questions ==
    {Join(ws) : ws \in SeqsUpTo(Phrases, MaxPhrases)}
    \cup ErrorQuestions \cup ServiceQuestions \cup {LongQuestion}

Scopes ==
    {[namespace |-> "", is_fleet_wide |-> FALSE],
     [namespace |-> "shop", is_fleet_wide |-> FALSE],
     [namespace |-> "shop", is_fleet_wide |-> TRUE]}

\* window lengths in seconds, on both sides of each interval boundary
Durations == {60, 3600, 3601, 21600, 21601, 86400, 86401, 604800}

\* start and end of the window, in epoch seconds
Windows == {[start_ts |-> 1704103200, end_ts |-> 1704103200 + d] : d \in Durations}

OneHourWindow == [start_ts |-> 1704103200, end_ts |-> 1704103200 + 3600]

\* the questions whose queries the window length shows in
WindowQuestions == {"count", "count last 2 days", "how many Errors", "payments"}

\* every question over a one-hour window, the window questions over each window
PlanInputs ==
    [question : Questions, scope : Scopes, window : {OneHourWindow}]
    \cup [question : WindowQuestions, scope : Scopes, window : Windows]

InitPlan ==
    /\ plan_in \in PlanInputs
    /\ plan_pc = "ready"
    /\ queries = <<>>
    /\ loki_url = ""
    /\ pc = <<>> /\ args = <<>> /\ sent = <<>>
    /\ outcome = <<>> /\ result = <<>> /\ raised = <<>>
    /\ result_data = <<>> /\ parse_pc = "idle" /\ log_entries = <<>>
    /\ cls_in = <<>> /\ cls_pc = "idle" /\ cls_out = ""
    /\ creds = <<>> /\ cred_pc = "idle" /\ token = <<>> /\ headers = <<>>
    /\ agg_in = <<>> /\ agg_pc = "idle" /\ agg_out = <<>>
    /\ time_in = <<>> /\ time_pc = "idle" /\ time_out = <<>>

\* generate_logql_from_question(question, namespace, start_ts, end_ts, is_fleet_wide)
Plan ==
    /\ plan_pc = "ready"
    /\ IF PlanRaises(plan_in.question)
       THEN plan_pc' = "raised" /\ UNCHANGED queries
       ELSE /\ plan_pc' = "returned"
            /\ queries' = generate_logql_from_question(
                              plan_in.question, plan_in.scope.namespace,
                              plan_in.window.start_ts, plan_in.window.end_ts,
                              plan_in.scope.is_fleet_wide)
    /\ UNCHANGED <<plan_in, clientVars, parseVars, clsVars, credVars, aggVars, timeVars>>

NextPlan == Plan

SpecPlan == InitPlan /\ [][NextPlan]_vars

---------------------------------------------------------------------------
(* The planner's final step on its own: line 202 applied to a drawn        *)
(* candidate list. plan_in holds the list, queries the result.             *)

\* candidates per list in the drawn inputs
MaxCandidates == 3

CandidateQueries ==
    {"{job=\"application\"}", "{job=\"application\"} | json | level=\"error\"",
     "rate({job=\"application\"}[5m])", "", "  "}

InitDedup ==
    /\ plan_in \in SeqsUpTo(CandidateQueries, MaxCandidates)
    /\ plan_pc = "candidates"
    /\ queries = <<>>
    /\ loki_url = ""
    /\ pc = <<>> /\ args = <<>> /\ sent = <<>>
    /\ outcome = <<>> /\ result = <<>> /\ raised = <<>>
    /\ result_data = <<>> /\ parse_pc = "idle" /\ log_entries = <<>>
    /\ cls_in = <<>> /\ cls_pc = "idle" /\ cls_out = ""
    /\ creds = <<>> /\ cred_pc = "idle" /\ token = <<>> /\ headers = <<>>
    /\ agg_in = <<>> /\ agg_pc = "idle" /\ agg_out = <<>>
    /\ time_in = <<>> /\ time_pc = "idle" /\ time_out = <<>>

\* queries = list(dict.fromkeys([q for q in queries if q.strip()]))
Dedup ==
    /\ plan_pc = "candidates"
    /\ plan_pc' = "deduplicated"
    /\ queries' = Deduplicate(plan_in)
    /\ UNCHANGED <<plan_in, clientVars, parseVars, clsVars, credVars, aggVars, timeVars>>

NextDedup == Dedup

SpecDedup == InitDedup /\ [][NextDedup]_vars

---------------------------------------------------------------------------
(* The parser on its own: one call of _parse_log_entries on a drawn input *)

\* values per stream in the drawn inputs
MaxValues == 1

\* backend time units: nanoseconds since the epoch as Loki sends them, and
\* one that is not a number
TimeUnits == {"1704103200000000000", "1704103200123456000", "not-a-time"}

PlainLines ==
    {"2024 ERROR something failed",
     "connection established",
     "warn: disk almost full",
     "FATAL: out of memory",
     "Critical section entered",
     "information only",
     "DEBUG x=1 {partial",
     "trailing brace }",
     ""}

MalformedLines ==
    {"{FATAL disk failure}",
     "{not json}",
     "{\"level\":\"error\",}",
     "{\"level\": warn}",
     "{\"level\":\"info\" \"msg\":\"x\"}",
     " {\"msg\":\"INFO: half\"}} "}

JsonLines ==
    {"{\"level\":\"error\",\"message\":\"db down\"}",
     "{\"lvl\":\"error\",\"msg\":\"db down\"}",
     "{\"level\":\"info\",\"msg\":\"started\"}",
     "{\"level\":\"WARN\",\"message\":\"slow\",\"msg\":\"other\"}",
     "{\"level\":\"fatal\",\"message\":\"panic\"}",
     "{\"msg\":\"no level ERROR here\"}",
     " { \"level\" : \"debug\" } ",
     "{\"level\":3,\"message\":\"numeric level\"}",
     "{\"level\":null,\"lvl\":\"warn\"}",
     "{}"}

Lines == PlainLines \cup MalformedLines \cup JsonLines

LabelSets ==
    {[service_name |-> "payments", namespace |-> "shop"], [app |-> "web"]}

\* one [timeUnit, line] pair, or a value too short to be one
Values == {<<t, l>> : t \in TimeUnits, l \in Lines} \cup {<<"1704103200000000000">>}

Streams ==
    {[stream |-> ls, values |-> vs] : ls \in LabelSets, vs \in SeqsUpTo(Values, MaxValues)}
    \cup {[values |-> <<v>>] : v \in Values}

\* data of a backend answer: one stream, several streams, no "result" at all
ResultData ==
    {[result |-> <<s>>] : s \in Streams}
    \cup {[result |-> <<s, [stream |-> [app |-> "web"],
                           values |-> <<<<"1704103200000000000", "plain INFO line">>>>]>>] :
            s \in Streams}
    \cup {[result |-> <<>>], [resultType |-> "streams"]}

InitParse ==
    /\ result_data \in ResultData
    /\ parse_pc = "ready"
    /\ log_entries = <<>>
    /\ loki_url = ""
    /\ pc = <<>> /\ args = <<>> /\ sent = <<>>
    /\ outcome = <<>> /\ result = <<>> /\ raised = <<>>
    /\ plan_in = <<>> /\ plan_pc = "idle" /\ queries = <<>>
    /\ cls_in = <<>> /\ cls_pc = "idle" /\ cls_out = ""
    /\ creds = <<>> /\ cred_pc = "idle" /\ token = <<>> /\ headers = <<>>
    /\ agg_in = <<>> /\ agg_pc = "idle" /\ agg_out = <<>>
    /\ time_in = <<>> /\ time_pc = "idle" /\ time_out = <<>>

\* _parse_log_entries(result_data)
Parse ==
    /\ parse_pc = "ready"
    /\ IF ParseRaises(result_data)
       THEN parse_pc' = "raised" /\ UNCHANGED log_entries
       ELSE parse_pc' = "returned" /\ log_entries' = parse_log_entries(result_data)
    /\ UNCHANGED <<result_data, clientVars, planVars, clsVars, credVars, aggVars, timeVars>>

NextParse == Parse

SpecParse == InitParse /\ [][NextParse]_vars

\* the [timeUnit, line] pairs of the input, in the order the loops visit them
RECURSIVE PairsOf(_)
PairsOf(streams) ==
    IF streams = <<>> THEN <<>>
    ELSE SelectSeq(Get(Head(streams), "values", <<>>), LAMBDA v : Len(v) >= 2)
         \o PairsOf(Tail(streams))

InputPairs == IF "result" \in DOMAIN result_data THEN PairsOf(result_data["result"]) ELSE <<>>

\* what the level pattern gives for a line: the matched word, lower-cased
RegexLevel(line) == IF LevelSearch(line) = "" THEN "unknown" ELSE LevelSearch(line)

\* entry i of the output against pair i of the input
EntryOf(i) == log_entries[i]
LineOf(i) == InputPairs[i][2]

\* C5: a plain-text line that is not brace-delimited yields an entry whose
\* message is the whole line and whose level is the level word the
\* case-insensitive pattern finds, "unknown" when it finds none.
C5_PlainLineGetsMessageAndLevel ==
    parse_pc = "returned" =>
        \A i \in 1..Len(InputPairs) :
            ~LooksLikeJson(LineOf(i)) =>
                /\ i <= Len(log_entries)
                /\ {"message", "level"} \subseteq DOMAIN EntryOf(i)
                /\ EntryOf(i)["message"] = JStr(LineOf(i))
                /\ EntryOf(i)["level"] = JStr(RegexLevel(LineOf(i)))

\* C6: a line that parses as a complete JSON object yields an entry whose
\* level is the object's level field, or its lvl field when level is absent,
\* whose message is the object's message field and otherwise its msg field,
\* and whose parsed field is the object.
C6_StructuredLineFields ==
    parse_pc = "returned" =>
        \A i \in 1..Len(InputPairs) :
            json_loads(LineOf(i)).ok =>
                LET obj == json_loads(LineOf(i)).obj
                    e == EntryOf(i)
                IN  /\ {"parsed", "level", "message"} \subseteq DOMAIN e
                    /\ e["parsed"] = obj
                    /\ "level" \in DOMAIN obj => e["level"] = obj["level"]
                    /\ ("level" \notin DOMAIN obj /\ "lvl" \in DOMAIN obj) =>
                            e["level"] = obj["lvl"]
                    /\ "message" \in DOMAIN obj => e["message"] = obj["message"]
                    /\ ("message" \notin DOMAIN obj /\ "msg" \in DOMAIN obj) =>
                            e["message"] = obj["msg"]

NormalizedLevels == {"error", "warning", "info", "debug", "unknown"}

\* C7: the level an entry produced by parse carries is one of error, warning,
\* info, debug, unknown: never fatal, critical or warn.
C7_LevelIsNormalized ==
    parse_pc = "returned" =>
        \A i \in 1..Len(log_entries) :
            "level" \in DOMAIN EntryOf(i) =>
                EntryOf(i)["level"] \in {JStr(l) : l \in NormalizedLevels}

\* C8: parse never raises, whatever the streams and their (timeUnit, line)
\* pairs; it returns one entry per pair, and a brace-delimited line that is
\* not valid JSON gets the plain-text handling: message is the whole line,
\* level is what the level pattern finds, and no parsed field.
C8_ParseNeverRaises ==
    /\ parse_pc # "raised"
    /\ parse_pc = "returned" =>
        /\ Len(log_entries) = Len(InputPairs)
        /\ \A i \in 1..Len(InputPairs) :
              (LooksLikeJson(LineOf(i)) /\ ~json_loads(LineOf(i)).ok) =>
                  /\ DOMAIN EntryOf(i) =
                        {"timestamp", "timestamp_ns", "log", "labels", "message", "level"}
                  /\ EntryOf(i)["message"] = JStr(LineOf(i))
                  /\ EntryOf(i)["level"] = JStr(RegexLevel(LineOf(i)))

---------------------------------------------------------------------------
(* Claims about the planner *)

\* the lower-cased question and the selector of the call in plan_in
QuestionLower == Lower(plan_in.question)
PlanBase == BaseSelector(plan_in.scope.namespace, plan_in.scope.is_fleet_wide)

\* the positions in the chain whose keyword list matches the question
MatchingTopics == {i \in 1..Len(TopicWords) : AnyWord(QuestionLower, TopicWords[i])}

\* the queries branch i of the chain builds for the call in plan_in
PlanBranch(i) ==
    BranchQueries(i, QuestionLower, PlanBase,
                  NamespaceFilter(plan_in.scope.namespace, plan_in.scope.is_fleet_wide),
                  RateInterval(plan_in.window.start_ts, plan_in.window.end_ts))

Elements(qs) == {qs[k] : k \in 1..Len(qs)}

DefaultThree ==
    << PlanBase,
       PlanBase \o " | json | level != \"debug\"",
       PlanBase \o " | logfmt | level != \"debug\"" >>

\* C9 as stated: a question with none of the topic keywords gets exactly the
\* three default queries, in order.
C9_NoKeywordGivesExactlyThree ==
    (plan_pc = "returned" /\ MatchingTopics = {}) => queries = DefaultThree

\* C9: a question with none of the topic keywords gets the three default
\* queries in their fixed order without duplicates, and nothing else unless
\* it holds a "last N minute|hour|day" phrase, in which case the rate query
\* over the base selector follows them as a fourth.
C9_NoKeywordGivesDefaultsThenRate ==
    (plan_pc = "returned" /\ MatchingTopics = {}) =>
        /\ Len(queries) >= 3
        /\ SubSeq(queries, 1, 3) = DefaultThree
        /\ Cardinality(Elements(queries)) = Len(queries)
        /\ ~TimeSearch(QuestionLower).found => Len(queries) = 3
        /\ TimeSearch(QuestionLower).found =>
              /\ Len(queries) = 4
              /\ queries[4] \in
                    {"rate(" \o PlanBase \o "[" \o iv \o "])" : iv \in {"15m", "3h", "48h"}}

\* a question without topic keywords but with a time phrase was planned
C9_Witness ==
    /\ plan_pc = "returned"
    /\ MatchingTopics = {}
    /\ plan_in.question = "payments last 2 days"
    /\ Len(queries) = 4

\* C10: the branches are tried in the order error, warning, performance,
\* HTTP/API, auth, database, lifecycle, service/pod/container, volume, default;
\* the returned list is the queries of the first branch whose keywords occur
\* in the question (then the rate query of the time phrase), and no query of
\* any other branch is in it, even when that branch's keywords occur too.
C10_FirstMatchingBranchOnly ==
    plan_pc = "returned" =>
        LET first == Min(MatchingTopics \cup {Len(TopicWords) + 1})
            rate == TimeQueries(QuestionLower, PlanBase)
        IN  /\ queries = Deduplicate(PlanBranch(first) \o rate)
            /\ \A j \in 1..(Len(TopicWords) + 1) :
                  j # first =>
                      Elements(PlanBranch(j)) \cap Elements(queries)
                          \subseteq Elements(PlanBranch(first)) \cup Elements(rate)

\* a question with the keywords of two branches was planned, and only the
\* earlier branch's queries came back
C10_Witness ==
    /\ plan_pc = "returned"
    /\ MatchingTopics = {2, 6}
    /\ queries = WarningQueries(PlanBase)

\* index of the first occurrence of p in s, 0 when there is none
IndexOf(s, p) ==
    IF Contains(s, p) THEN Min({i \in 1..Len(s) : MatchAt(s, i, p)}) ELSE 0

\* position in the chain of the branch that fires for the call in plan_in
FirstTopic == Min(MatchingTopics \cup {Len(TopicWords) + 1})

\* the amounts N of the "last N unit" phrases in the drawn questions
Amounts == {2, 3, 15}

TimePhrase(n, unit) == "last " \o ToString(n) \o " " \o unit

\* the duration string the claim gives for N units
Duration(n, unit) ==
    CASE unit = "minute" -> ToString(n) \o "m"
      [] unit = "hour" -> ToString(n) \o "h"
      [] unit = "day" -> ToString(n * 24) \o "h"

IsRateQuery(x) == StartsWith(x, "rate(")

\* C12: when the question holds "last N minute|hour|day" (the leftmost such
\* phrase counts), the returned list is the queries of the branch that fired
\* followed by exactly one rate query over the base selector, with duration
\* Nm for minutes, Nh for hours and (N*24)h for days.
C12_TimePhraseAppendsRate ==
    plan_pc = "returned" =>
        LET q == QuestionLower
            at == [n \in Amounts, unit \in TimeUnitWords |-> IndexOf(q, TimePhrase(n, unit))]
        IN  \A n \in Amounts, unit \in TimeUnitWords :
                (/\ at[n, unit] > 0
                 /\ \A m \in Amounts, u \in TimeUnitWords :
                        at[m, u] = 0 \/ at[m, u] >= at[n, unit]) =>
                    /\ queries = Deduplicate(PlanBranch(FirstTopic))
                                    \o <<"rate(" \o PlanBase \o "[" \o Duration(n, unit) \o "])">>
                    /\ Cardinality({k \in 1..Len(queries) : IsRateQuery(queries[k])}) = 1

\* a question with an error keyword and "last 2 days" was planned: the error
\* queries come back followed by the 48-hour rate query
C12_Witness ==
    /\ plan_pc = "returned"
    /\ plan_in.question = "Errors last 2 days"
    /\ Len(queries) = 4
    /\ queries[4] = "rate(" \o PlanBase \o "[48h])"

\* the position of x in qs, 0 when it is not there
PositionIn(qs, x) ==
    IF x \in Elements(qs) THEN Min({k \in 1..Len(qs) : qs[k] = x}) ELSE 0

\* the error branch's four additions, in the order the branch tests them:
\* whether the sub-condition holds for the call in plan_in, and its query
ErrorAdditions ==
    << [holds |-> Contains(QuestionLower, "database") \/ Contains(QuestionLower, "db"),
        query |-> PlanBase \o " |~ \"(?i)(database|db|sql).*error\""],
       [holds |-> Contains(QuestionLower, "connection"),
        query |-> PlanBase \o " |~ \"(?i)connection.*(error|failed|refused|timeout)\""],
       [holds |-> Contains(QuestionLower, "timeout"),
        query |-> PlanBase \o " |~ \"(?i)timeout\""],
       [holds |-> Contains(QuestionLower, "authentication") \/ Contains(QuestionLower, "auth"),
        query |-> PlanBase \o " |~ \"(?i)(auth|authentication).*(error|failed|denied)\""] >>

\* C13: in the error branch the three base error queries come first, in
\* their order; the query of each sub-condition (database/db, connection,
\* timeout, auth/authentication) is in the list exactly when the
\* sub-condition holds, after the base queries and in the order of the
\* sub-conditions; nothing else is in the list but the rate query.
C13_ErrorAdditionsOnlyAppend ==
    (plan_pc = "returned" /\ AnyWord(QuestionLower, ErrorWords)) =>
        LET add == ErrorAdditions
            at == [a \in 1..Len(add) |-> PositionIn(queries, add[a].query)]
        IN  /\ Len(queries) >= 3
            /\ queries[1] = PlanBase
                    \o " |~ \"(?i)(error|failed|failure|exception|panic|fatal|critical)\""
            /\ queries[2] = PlanBase \o " | json | level=\"error\""
            /\ queries[3] = PlanBase \o " | logfmt | level=\"error\""
            /\ \A a \in 1..Len(add) :
                  /\ add[a].holds <=> at[a] > 3
                  /\ ~add[a].holds => at[a] = 0
                  /\ \A b \in (a + 1)..Len(add) :
                        (add[a].holds /\ add[b].holds) => at[a] < at[b]
            /\ Len(queries) = 3 + Cardinality({a \in 1..Len(add) : add[a].holds})
                                + Cardinality({k \in 1..Len(queries) : IsRateQuery(queries[k])})

\* an error question meeting all four sub-conditions was planned: three base
\* queries and four additions came back
C13_Witness ==
    /\ plan_pc = "returned"
    /\ plan_in.question = "failed database connection timeout auth"
    /\ \A a \in 1..Len(ErrorAdditions) : ErrorAdditions[a].holds
    /\ Len(queries) = 7

\* the positions of the candidate list that survive: not blank, and no equal
\* candidate before them
FirstOccurrences ==
    {k \in 1..Len(plan_in) :
        /\ \E i \in 1..Len(plan_in[k]) : Ch(plan_in[k], i) \notin SpaceChars
        /\ \A j \in 1..(k - 1) : plan_in[j] # plan_in[k]}

\* C14: the list after the final step has no duplicates and no empty or
\* whitespace-only string, and it is the candidate list with blanks and
\* later repeats removed: the first occurrences, in their original order.
C14_DeduplicatedInOrder ==
    plan_pc = "deduplicated" =>
        /\ \A i, j \in 1..Len(queries) : queries[i] = queries[j] => i = j
        /\ \A i \in 1..Len(queries) : queries[i] \notin {"", " ", "  "}
        /\ Len(queries) = Cardinality(FirstOccurrences)
        /\ \A i \in 1..Len(queries) :
              \E k \in FirstOccurrences :
                  /\ queries[i] = plan_in[k]
                  /\ Cardinality({m \in FirstOccurrences : m < k}) = i - 1

\* a candidate list with a repeat and a blank went through the final step
C14_Witness ==
    /\ plan_pc = "deduplicated"
    /\ plan_in = <<"{job=\"application\"}", "  ", "{job=\"application\"}">>
    /\ queries = <<"{job=\"application\"}">>

\* the interval the claim gives for a window of d seconds
IntervalFor(d) ==
    CASE d <= 3600 -> "5m"
      [] d > 3600 /\ d <= 21600 -> "15m"
      [] d > 21600 /\ d <= 86400 -> "1h"
      [] d > 86400 -> "6h"

\* C15: the aggregation interval, as the volume branch's queries show it, is
\* 5m for a window of at most 1 hour, 15m for more than 1 and at most 6
\* hours, 1h for more than 6 and at most 24 hours, 6h beyond; a window of
\* exactly 3600, 21600 or 86400 seconds gets the smaller interval.
C15_IntervalFromWindow ==
    (plan_pc = "returned" /\ FirstTopic = 9) =>
        LET iv == IntervalFor(plan_in.window.end_ts - plan_in.window.start_ts)
        IN  /\ Len(queries) >= 3
            /\ queries[1] = "sum by (namespace) (count_over_time("
                                \o PlanBase \o "[" \o iv \o "]))"
            /\ queries[2] = "sum by (level) (count_over_time("
                                \o PlanBase \o "[" \o iv \o "]))"
            /\ queries[3] = "sum by (service_name) (count_over_time("
                                \o PlanBase \o "[" \o iv \o "]))"

\* a volume question over a window of exactly six hours was planned with 15m
C15_Witness ==
    /\ plan_pc = "returned"
    /\ plan_in.question = "count"
    /\ plan_in.window.end_ts - plan_in.window.start_ts = 21600
    /\ queries[1] = "sum by (namespace) (count_over_time(" \o PlanBase \o "[15m]))"

\* the identifier each of the four patterns finds in the lower-cased
\* question, in the order service X, X service, pod X, container X; "" for a
\* pattern that does not match
ServicePatternHits(q) ==
    <<WordAfter(q, "service"), WordBefore(q, "service"),
      WordAfter(q, "pod"), WordAfter(q, "container")>>

\* the three selectors keyed on service_name, app and container
ServiceSelectors(x, namespace_filter) ==
    << "{service_name=\"" \o x \o "\"" \o namespace_filter \o "}",
       "{app=\"" \o x \o "\"" \o namespace_filter \o "}",
       "{container=\"" \o x \o "\"" \o namespace_filter \o "}" >>

\* C24: when the service/pod/container branch fires, the identifier is the
\* one found by the first of the patterns service X, X service, pod X,
\* container X that matches the lower-cased question; the plan is then the
\* three selectors keyed on service_name, app and container with that
\* identifier, without the base selector, and it is the base selector alone
\* when no pattern matches (in both cases followed by the rate query of a
\* time phrase).
C24_ServiceIdentifierFromFirstPattern ==
    (plan_pc = "returned" /\ FirstTopic = 8) =>
        LET hits == ServicePatternHits(QuestionLower)
            rate == TimeQueries(QuestionLower, PlanBase)
            nf == NamespaceFilter(plan_in.scope.namespace, plan_in.scope.is_fleet_wide)
        IN  /\ \A i \in 1..4 :
                  (hits[i] # "" /\ \A j \in 1..(i - 1) : hits[j] = "") =>
                      /\ queries = ServiceSelectors(hits[i], nf) \o rate
                      /\ PlanBase \notin Elements(queries)
            /\ (\A i \in 1..4 : hits[i] = "") => queries = <<PlanBase>> \o rate

\* a question in which `service X` and `X service` both match, with
\* different identifiers, was planned with the identifier of `service X`
C24_Witness ==
    /\ plan_pc = "returned"
    /\ plan_in.question = "cart service in pod web"
    /\ ServicePatternHits(QuestionLower) = <<"in", "cart", "web", "">>
    /\ plan_in.scope.namespace = "shop" /\ ~plan_in.scope.is_fleet_wide
    /\ queries = <<"{service_name=\"in\", namespace=\"shop\"}",
                   "{app=\"in\", namespace=\"shop\"}",
                   "{container=\"in\", namespace=\"shop\"}">>

\* C11: plan never raises and never returns an empty list, whatever the
\* question, the scope and the window.
C11_PlanReturnsSomeQuery ==
    /\ plan_pc # "raised"
    /\ plan_pc = "returned" => Len(queries) >= 1

---------------------------------------------------------------------------
(* The aggregations on their own: one aggregation over drawn backend data *)

\* values per stream in the drawn inputs
MaxEntries == 2

AggLines ==
    {"{\"level\":\"info\",\"message\":\"payment failed\"}",
     "{\"level\":\"error\",\"message\":\"db down\"}",
     "{\"level\":\"debug\",\"message\":\"slow retry\"}",
     "{\"level\":\"error\",\"message\":\"http request refused\"}",
     "{\"level\":\"warning\",\"message\":\"connection error\"}",
     "{\"level\":\"fatal\",\"msg\":\"boom\"}",
     "2024 ERROR database timeout",
     "user logged in"}

AggLabelSets ==
    {[service_name |-> "payments"],
     [app |-> "checkout"],
     [service_name |-> "payments", app |-> "checkout"],
     <<>>}

\* the data of a successful answer: one stream of up to MaxEntries values
AggInputs ==
    {[result |-> <<[stream |-> labels,
                    values |-> [i \in 1..Len(ls) |-> <<"1704103200000000000", ls[i]>>]]>>,
      resultType |-> "streams"] :
        labels \in AggLabelSets, ls \in SeqsUpTo(AggLines, MaxEntries)}

InitAggregate ==
    /\ agg_in \in AggInputs
    /\ agg_pc = "ready"
    /\ agg_out = <<>>
    /\ time_in = <<>> /\ time_pc = "idle" /\ time_out = <<>>
    /\ creds = <<>> /\ cred_pc = "idle" /\ token = <<>> /\ headers = <<>>
    /\ loki_url = ""
    /\ pc = <<>> /\ args = <<>> /\ sent = <<>>
    /\ outcome = <<>> /\ result = <<>> /\ raised = <<>>
    /\ result_data = <<>> /\ parse_pc = "idle" /\ log_entries = <<>>
    /\ plan_in = <<>> /\ plan_pc = "idle" /\ queries = <<>>
    /\ cls_in = <<>> /\ cls_pc = "idle" /\ cls_out = ""

\* chat_loki_tool, mcp_tools.py lines 450-510, on the logs of a successful
\* query_logs result; nothing is counted when there are no logs (line 460)
ChatAnalysis ==
    /\ agg_pc = "ready"
    /\ IF parse_log_entries(agg_in) # <<>>
       THEN /\ agg_pc' = "chat"
            /\ agg_out' = chat_analysis(parse_log_entries(agg_in))
       ELSE /\ agg_pc' = "chat_no_logs"
            /\ UNCHANGED agg_out
    /\ UNCHANGED <<agg_in, clientVars, parseVars, planVars, clsVars, credVars, timeVars>>

\* generate_error_analysis_with_correlation, lines 225-256
ErrorAnalysis ==
    /\ agg_pc = "ready"
    /\ agg_pc' = "error_analysis"
    /\ agg_out' = error_analysis(agg_in)
    /\ UNCHANGED <<agg_in, clientVars, parseVars, planVars, clsVars, credVars, timeVars>>

\* generate_unified_observability_summary, lines 454-485
UnifiedSummary ==
    /\ agg_pc = "ready"
    /\ agg_pc' = "unified"
    /\ agg_out' = unified_summary(agg_in)
    /\ UNCHANGED <<agg_in, clientVars, parseVars, planVars, clsVars, credVars, timeVars>>

NextAggregate == ChatAnalysis \/ ErrorAnalysis \/ UnifiedSummary

SpecAggregate == InitAggregate /\ [][NextAggregate]_vars

\* the entries the chat aggregation ran over
AggLogs == parse_log_entries(agg_in)

\* the entry has a structured level, and it is not "unknown"
KnownLevel(e) ==
    "level" \in DOMAIN e /\ Lower(e["level"].v) \notin {"", "unknown"}

\* C21: message keywords decide the severity only of entries whose level is
\* unknown: an entry with a known level that is not error, fatal or critical
\* is not among the error entries, and an entry with a known level that is
\* not warning or warn is not among the warning entries, whatever its message.
C21_KeywordsOnlyForUnknownLevel ==
    agg_pc = "chat" =>
        \A i \in 1..Len(AggLogs) :
            LET e == AggLogs[i]
            IN  KnownLevel(e) =>
                    /\ Lower(e["level"].v) \notin {"error", "fatal", "critical"} =>
                          e \notin Elements(agg_out.error_logs)
                    /\ Lower(e["level"].v) \notin {"warning", "warn"} =>
                          e \notin Elements(agg_out.warning_logs)

RECURSIVE SumOver(_, _)
\* the sum of f over the keys in S
SumOver(f, S) ==
    IF S = {} THEN 0
    ELSE LET k == CHOOSE x \in S : TRUE IN f[k] + SumOver(f, S \ {k})

\* the five bucket keys of the claim
ClaimedBuckets == {"database", "connection", "timeout", "authentication", "unknown"}

\* the first of the categories database, connection, timeout, authentication
\* with a keyword in the entry's message, "unknown" when none has one
ClaimedBucket(e) ==
    LET hits == {i \in 1..4 : AnyKeyword(EntryMessage(e), ERROR_TYPES[i].keywords)}
    IN  IF hits = {} THEN "unknown" ELSE ERROR_TYPES[Min(hits)].type

\* C22: every error entry is in exactly one bucket of the error-type
\* breakdown, the first matching one of database, connection, timeout,
\* authentication, or "unknown"; no other bucket key appears, and the buckets
\* together hold every error entry, in the chat aggregation and in the error
\* analysis of the summary service alike.
C22_BreakdownUsesTheFiveBuckets ==
    /\ agg_pc = "chat" =>
          /\ DOMAIN agg_out.error_types \subseteq ClaimedBuckets
          /\ agg_out.error_types =
                CountBy([i \in 1..Len(agg_out.error_logs) |->
                            ClaimedBucket(agg_out.error_logs[i])])
    /\ agg_pc = "error_analysis" =>
          /\ DOMAIN agg_out.error_patterns \subseteq ClaimedBuckets
          /\ SumOver(agg_out.error_patterns, DOMAIN agg_out.error_patterns)
                = agg_out.total_errors

\* the service of an entry with these labels, as the claim has it
ClaimedService(labels) ==
    IF "service_name" \in DOMAIN labels THEN labels["service_name"]
    ELSE IF "app" \in DOMAIN labels THEN labels["app"]
    ELSE "unknown"

\* the claimed services of the streams of the input
StreamServices ==
    {ClaimedService(Get(agg_in["result"][i], "stream", <<>>)) :
        i \in 1..Len(agg_in["result"])}

\* C23: in every aggregation, an entry's service is its service_name label
\* when present, else its app label, else "unknown": the chat aggregation
\* counts the entries by that service, and the two aggregations of the
\* summary service attribute errors and streams to that service.
C23_ServiceFromServiceNameThenApp ==
    /\ agg_pc = "chat" =>
          agg_out.services =
              CountBy([i \in 1..Len(AggLogs) |-> ClaimedService(AggLogs[i]["labels"])])
    /\ agg_pc = "error_analysis" =>
          DOMAIN agg_out.service_errors \subseteq StreamServices
    /\ agg_pc = "unified" => agg_out.services = StreamServices

\* C30: in the chat aggregation every entry is in at most one of the error
\* and warning classes, an entry that both detectors match is an error, the
\* two counts together do not exceed the number of entries, and the counts of
\* the error-type breakdown add up to the number of error entries.
C30_ErrorAndWarningAreDisjoint ==
    agg_pc = "chat" =>
        /\ \A i \in 1..Len(AggLogs) :
              /\ ~(/\ AggLogs[i] \in Elements(agg_out.error_logs)
                   /\ AggLogs[i] \in Elements(agg_out.warning_logs))
              /\ (is_error_log(AggLogs[i]) /\ is_warning_log(AggLogs[i])) =>
                    AggLogs[i] \in Elements(agg_out.error_logs)
        /\ Len(agg_out.error_logs) + Len(agg_out.warning_logs) <= Len(AggLogs)
        /\ SumOver(agg_out.error_types, DOMAIN agg_out.error_types)
              = Len(agg_out.error_logs)

\* two entries were aggregated: one that both detectors match, counted as an
\* error only, and one counted as a warning
C30_Witness ==
    /\ agg_pc = "chat"
    /\ Len(AggLogs) = 2
    /\ is_error_log(AggLogs[1]) /\ is_warning_log(AggLogs[1])
    /\ agg_out.error_logs = <<AggLogs[1]>>
    /\ agg_out.warning_logs = <<AggLogs[2]>>
    /\ agg_out.error_types = [k \in {"connection"} |-> 1]

---------------------------------------------------------------------------
(* query_tool.py: the two time conversions. An instant is a number of       *)
(* seconds since the epoch; the drawn instants are whole seconds before     *)
(* 2116, for which the float product timestamp() * 1_000_000_000 and the    *)
(* float quotient timestamp_ns / 1_000_000_000 are exact.                   *)

\* datetime's proleptic Gregorian calendar: days from 1970-01-01 to y-m-d
DaysFromCivil(y, m, d) ==
    LET yy == IF m <= 2 THEN y - 1 ELSE y
        era == yy \div 400
        yoe == yy - era * 400
        doy == (153 * (IF m > 2 THEN m - 3 ELSE m + 9) + 2) \div 5 + d - 1
        doe == yoe * 365 + yoe \div 4 - yoe \div 100 + doy
    IN  era * 146097 + doe - 719468

\* the calendar date of the day z days after 1970-01-01
CivilFromDays(z) ==
    LET zz == z + 719468
        era == zz \div 146097
        doe == zz - era * 146097
        yoe == (doe - doe \div 1460 + doe \div 36524 - doe \div 146096) \div 365
        doy == doe - (365 * yoe + yoe \div 4 - yoe \div 100)
        mp == (5 * doy + 2) \div 153
        m == IF mp < 10 THEN mp + 3 ELSE mp - 9
    IN  [year |-> yoe + era * 400 + (IF m <= 2 THEN 1 ELSE 0),
         month |-> m,
         day |-> doy - (153 * mp + 2) \div 5 + 1]

\* n as decimal text of at least w digits
Pad(n, w) == IF Len(ToString(n)) >= w THEN ToString(n)
             ELSE Repeat("0", w - Len(ToString(n))) \o ToString(n)

\* datetime.fromisoformat(text.replace('Z', '+00:00')).timestamp(), for the
\* shapes IsIsoFormat accepts: a text with Z or +00:00 is UTC, a text
\* without an offset is a naive datetime, read in the process's local zone
IsoTimestamp(text, utcoffset) ==
    LET field(i, j) == DecValue(SubSeq(text, i, j))
        wall == DaysFromCivil(field(1, 4), field(6, 7), field(9, 10)) * 86400
                + field(12, 13) * 3600 + field(15, 16) * 60 + field(18, 19)
    IN  IF Len(text) > 19 THEN wall ELSE wall - utcoffset

\* str(int(seconds * 1_000_000_000)) for whole seconds
NanosecondsText(seconds) ==
    IF seconds = 0 THEN "0" ELSE ToString(seconds) \o "000000000"

\* lines 85-93, with the Python ints as their decimal texts
convert_timestamps_to_nanoseconds(start_time, end_time, utcoffset) ==
    <<NanosecondsText(IsoTimestamp(start_time, utcoffset)),
      NanosecondsText(IsoTimestamp(end_time, utcoffset))>>

\* lines 110-113: datetime.fromtimestamp(...) is the naive local time of the
\* instant dt, and isoformat() + "Z" writes its wall-clock fields
TimestampText(dt, utcoffset) ==
    LET local == dt.sec + utcoffset
        date == CivilFromDays(local \div 86400)
        sod == local % 86400
    IN  Pad(date.year, 4) \o "-" \o Pad(date.month, 2) \o "-" \o Pad(date.day, 2)
        \o "T" \o Pad(sod \div 3600, 2) \o ":" \o Pad((sod % 3600) \div 60, 2)
        \o ":" \o Pad(sod % 60, 2)
        \o (IF dt.usec = 0 THEN "" ELSE "." \o Pad(dt.usec, 6)) \o "Z"

---------------------------------------------------------------------------
(* The conversions on their own: a window is converted for the request and *)
(* the start's nanoseconds come back as the time unit of a log value       *)

\* the epoch, a present-day time and a time far ahead, with and without Z
IsoTexts ==
    {"1970-01-01T00:00:00Z",
     "2024-01-01T10:00:00Z",
     "2024-02-29T23:59:59+00:00",
     "2024-01-01T10:00:00",
     "2037-12-31T18:30:00Z"}

\* the UTC offset, in seconds, of the zone the process runs in
UtcOffsets == {0, 19800, 0 - 18000}

InitTime ==
    /\ time_in \in [start_time : IsoTexts, end_time : IsoTexts, utcoffset : UtcOffsets]
    /\ time_pc = "ready"
    /\ time_out = <<>>
    /\ agg_in = <<>> /\ agg_pc = "idle" /\ agg_out = <<>>
    /\ creds = <<>> /\ cred_pc = "idle" /\ token = <<>> /\ headers = <<>>
    /\ loki_url = ""
    /\ pc = <<>> /\ args = <<>> /\ sent = <<>>
    /\ outcome = <<>> /\ result = <<>> /\ raised = <<>>
    /\ result_data = <<>> /\ parse_pc = "idle" /\ log_entries = <<>>
    /\ plan_in = <<>> /\ plan_pc = "idle" /\ queries = <<>>
    /\ cls_in = <<>> /\ cls_pc = "idle" /\ cls_out = ""

\* self._convert_timestamps_to_nanoseconds(start_time, end_time)
ConvertWindow ==
    /\ time_pc = "ready"
    /\ time_pc' = "converted"
    /\ time_out' = [ns |-> convert_timestamps_to_nanoseconds(
                              time_in.start_time, time_in.end_time, time_in.utcoffset)]
    /\ UNCHANGED <<time_in, clientVars, parseVars, planVars, clsVars, credVars, aggVars>>

\* _parse_log_entries on a value whose time unit is the start's nanoseconds:
\* the entry's timestamp and timestamp_ns
RestoreTimestamp ==
    /\ time_pc = "converted"
    /\ time_pc' = "restored"
    /\ time_out' = [ns |-> time_out.ns,
                    timestamp_ns |-> time_out.ns[1],
                    timestamp |-> TimestampText(FromTimestamp(time_out.ns[1]),
                                                time_in.utcoffset)]
    /\ UNCHANGED <<time_in, clientVars, parseVars, planVars, clsVars, credVars, aggVars>>

NextTime == ConvertWindow \/ RestoreTimestamp

SpecTime == InitTime /\ [][NextTime]_vars

\* the instant an ISO text with Z names, in seconds since the epoch
InstantOf(text) == IsoTimestamp(text, 0)

\* C27: the time conversions round-trip. The nanoseconds sent for an instant
\* are that instant's, the forward conversion is monotonic (an earlier
\* instant never gets more nanoseconds than a later one), and the timestamp
\* read back from those nanoseconds names the instant that was converted,
\* for the epoch, a present-day time and a time far ahead.
C27_TimeConversionRoundTrips ==
    /\ time_pc \in {"converted", "restored"} =>
          LET start == IsoTimestamp(time_in.start_time, time_in.utcoffset)
              end == IsoTimestamp(time_in.end_time, time_in.utcoffset)
          IN  start <= end =>
                  FromTimestamp(time_out.ns[1]).sec <= FromTimestamp(time_out.ns[2]).sec
    /\ time_pc = "restored" =>
          /\ time_out.timestamp_ns = time_out.ns[1]
          /\ InstantOf(time_out.timestamp)
                = IsoTimestamp(time_in.start_time, time_in.utcoffset)
====
